---- MODULE Spec2Model ----
(***************************************************************************)
(* Multi-account Google Search Console server: the credential store        *)
(* (AccountManager), its OAuth2 client cache with refresh-on-demand, and   *)
(* the permission-error fallback of SearchConsoleService.                  *)
(* Source: src/src/accounts.ts, src/src/schemas.ts.                        *)
(***************************************************************************)
EXTENDS FiniteSets, Integers, Sequences, TLC

(***************************************************************************)
(* Bounds of the model.                                                    *)
(***************************************************************************)
MaxAccounts == 2        \* GSCAccount objects ever passed to addAccount
MaxClients == 2         \* OAuth2Client objects ever constructed
MaxPending == 2         \* getAuthClient calls suspended at the refresh await
MaxIssued == 2          \* access tokens the identity provider issues
MaxTicks == 2           \* clock advances

(***************************************************************************)
(* JavaScript values.                                                      *)
(***************************************************************************)
\* `undefined` in a string-typed field (email, accessToken).
Undefined == "undefined"
\* `|| 0` of accounts.ts:196; a missing expiry (undefined) and 0 are both
\* falsy and the code never tells them apart, so a missing expiry is 0.
NoExpiry == 0

LowerChar(c) ==
  CASE c = "A" -> "a" [] c = "B" -> "b" [] c = "C" -> "c" [] c = "D" -> "d"
    [] c = "E" -> "e" [] c = "F" -> "f" [] c = "G" -> "g" [] c = "H" -> "h"
    [] c = "I" -> "i" [] c = "J" -> "j" [] c = "K" -> "k" [] c = "L" -> "l"
    [] c = "M" -> "m" [] c = "N" -> "n" [] c = "O" -> "o" [] c = "P" -> "p"
    [] c = "Q" -> "q" [] c = "R" -> "r" [] c = "S" -> "s" [] c = "T" -> "t"
    [] c = "U" -> "u" [] c = "V" -> "v" [] c = "W" -> "w" [] c = "X" -> "x"
    [] c = "Y" -> "y" [] c = "Z" -> "z" [] OTHER -> c

\* String.prototype.toLowerCase, character by character.
RECURSIVE ToLowerCase(_)
ToLowerCase(s) ==
  IF Len(s) = 0 THEN ""
  ELSE LowerChar(SubSeq(s, 1, 1)) \o ToLowerCase(SubSeq(s, 2, Len(s)))

\* String.prototype.includes.
Includes(s, sub) ==
  \E i \in 1..(Len(s) - Len(sub) + 1) : SubSeq(s, i, i + Len(sub) - 1) = sub

(***************************************************************************)
(* Map<string, V> with JavaScript's insertion order: a sequence of         *)
(* entries; set() on an existing key keeps the key's position.             *)
(***************************************************************************)
MapHas(m, k) == \E i \in 1..Len(m) : m[i].key = k

MapGet(m, k) == m[CHOOSE i \in 1..Len(m) : m[i].key = k].val

\* a set that always adds an entry, leaving the entry an existing key has
MapSetAppend(m, k, v) == Append(m, [key |-> k, val |-> v])

MapSet(m, k, v) ==
  IF MapHas(m, k)
  THEN [i \in 1..Len(m) |-> IF m[i].key = k THEN [key |-> k, val |-> v] ELSE m[i]]
  ELSE Append(m, [key |-> k, val |-> v])

(***************************************************************************)
(* State.                                                                  *)
(***************************************************************************)
VARIABLES
  phase,        \* position of startup: "json", "file", "single", then "serving"
  heap,         \* the GSCAccount objects, in the order they were created
  accounts,     \* AccountManager.accounts: Map<string, GSCAccount> (values are heap indices)
  clients,      \* the OAuth2Client objects, in the order they were constructed
  authClients,  \* AccountManager.authClients: cache key -> index into clients
  pending,      \* the getAuthClient calls suspended at refreshAccessToken, oldest first
  issued,       \* identity provider: access token -> the time it really expires
  now,          \* Date.now()
  ticks,        \* clock advances so far
  ret,          \* outcome of the operation that produced this state
  facade,       \* the SearchConsoleService call in progress, and the API's side of it
  engine,       \* the analytics call in progress: its rows, parameters and result
  tool          \* the CallTool handler in progress: server, tool, arguments, outcome

vars == <<phase, heap, accounts, clients, authClients, pending, issued, now, ticks, ret,
          facade, engine, tool>>


(***************************************************************************)
(* Inputs.                                                                 *)
(***************************************************************************)
Ids == {"x", "a@b.cd"}
Emails == {"a@b.cd", "A@b.cd", "c@d.ef"}
\* what a caller may pass as the account selector of a tool
Selectors == Ids \cup Emails \cup {"X", "A@B.CD"}
\* refresh token and optional access token of an account
Credentials == {<<"1//r1", Undefined>>, <<"1//r2", "ya29.cfg">>}
\* what refreshAccessToken rejects with
Causes == {"Error: invalid_grant", "Error: socket hang up"}

\* GSCAccount objects (accounts.ts:25-31) as they are passed to addAccount
AccountsOf(ids, emails, creds) ==
  {[id |-> i, email |-> e, refreshToken |-> c[1], accessToken |-> c[2],
    expiresAt |-> NoExpiry] : i \in ids, e \in emails, c \in creds}

\* register_account: RegisterAccountSchema (schemas.ts:190-195) takes any
\* string as id and requires a well-formed e-mail address (z.string().email())
RegisterInputs == AccountsOf(Ids, Emails, {<<"1//r1", Undefined>>})

\* the entries of a JSON source: nothing validates them, so the email may
\* be missing
ConfigInputs == AccountsOf(Ids, Emails \cup {Undefined}, {<<"1//r1", Undefined>>})

\* GSC_EMAIL || 'default' (accounts.ts:91)
SingleEmails == {"default", "c@d.ef"}

\* the accounts registered while clients are in use
LiveInputs == AccountsOf({"x"}, {"A@b.cd", "c@d.ef"}, Credentials)
LiveSelectors == {"x", "a@b.cd", "c@d.ef"}

(***************************************************************************)
(* AccountManager: the credential store.                                   *)
(***************************************************************************)
\* a delete that removes nothing
MapKeep(m, k) == m

\* Map.prototype.delete
MapDelete(m, k) == SelectSeq(m, LAMBDA e : e.key # k)

\* addAccount (accounts.ts:107-114) on the object stored at heap index ref.
\* account.email.toLowerCase() throws a TypeError when email is not a
\* string; the statements before it have then already run.
AddAccount(accts, cache, account, ref) ==
  IF account.email = Undefined
  THEN [accounts |-> MapSet(accts, account.id, ref),
        authClients |-> cache,
        threw |-> TRUE]
  ELSE [accounts |-> MapSet(MapSet(accts, account.id, ref),
                            ToLowerCase(account.email), ref),
        authClients |-> MapDelete(MapDelete(cache, account.id),
                                  ToLowerCase(account.email)),
        threw |-> FALSE]

\* listAccounts (accounts.ts:126-138): one entry per distinct account.id,
\* in the iteration order of the map.
RECURSIVE ListFrom(_, _, _, _, _)
ListFrom(accts, hp, i, seen, result) ==
  IF i > Len(accts) THEN result
  ELSE LET account == hp[accts[i].val]
       IN  IF account.id \in seen
           THEN ListFrom(accts, hp, i + 1, seen, result)
           ELSE ListFrom(accts, hp, i + 1, seen \cup {account.id},
                         Append(result, [id |-> account.id, email |-> account.email]))

ListAccounts(accts, hp) == ListFrom(accts, hp, 1, {}, <<>>)

\* count getter (accounts.ts:216-218)
Count(accts, hp) == Len(ListAccounts(accts, hp))

\* no GSCAccount: the result of a failed lookup
NoAccount == 0

\* getAccount (accounts.ts:143-145): the heap index of the account, or NoAccount
GetAccount(accts, idOrEmail) ==
  IF MapHas(accts, idOrEmail) THEN MapGet(accts, idOrEmail)
  ELSE IF MapHas(accts, ToLowerCase(idOrEmail)) THEN MapGet(accts, ToLowerCase(idOrEmail))
  ELSE NoAccount


(***************************************************************************)
(* AccountManager.getAuthClient: account resolution, the client cache and  *)
(* refresh on demand.                                                      *)
(***************************************************************************)
\* the margin of accounts.ts:198, in milliseconds
RefreshMargin == 60000
\* the identity provider's access tokens live for two margins
TokenLifetime == 2 * RefreshMargin
\* one clock advance
TickMs == RefreshMargin
\* Date.now() when the process starts
StartTime == RefreshMargin

NoAccountsMessage ==
  "No accounts configured. Use register_account or set GSC_ACCOUNTS_JSON/GSC_ACCOUNTS_FILE"

\* Resolve with the default taken from the end of the list
ResolveLast(accts, hp, idOrEmail) ==
  IF idOrEmail # Undefined /\ idOrEmail # ""
  THEN IF GetAccount(accts, idOrEmail) = NoAccount
       THEN [account |-> NoAccount, message |-> "Account not found: " \o idOrEmail]
       ELSE [account |-> GetAccount(accts, idOrEmail), message |-> ""]
  ELSE IF Len(ListAccounts(accts, hp)) = 0
       THEN [account |-> NoAccount, message |-> NoAccountsMessage]
       ELSE [account |-> GetAccount(accts, ListAccounts(accts, hp)[Len(ListAccounts(accts, hp))].id),
             message |-> ""]

\* accounts.ts:152-166: the account getAuthClient operates on, or the
\* message of the Error it throws. Undefined and "" are falsy selectors.
Resolve(accts, hp, idOrEmail) ==
  IF idOrEmail # Undefined /\ idOrEmail # ""
  THEN IF GetAccount(accts, idOrEmail) = NoAccount
       THEN [account |-> NoAccount, message |-> "Account not found: " \o idOrEmail]
       ELSE [account |-> GetAccount(accts, idOrEmail), message |-> ""]
  ELSE IF Len(ListAccounts(accts, hp)) = 0
       THEN [account |-> NoAccount, message |-> NoAccountsMessage]
       ELSE [account |-> GetAccount(accts, ListAccounts(accts, hp)[1].id), message |-> ""]

\* accounts.ts:173-188: a new OAuth2Client seeded from the account; owner
\* is the account object its 'tokens' listener closes over.
NewClient(account, ref) ==
  [credentials |-> [refresh_token |-> account.refreshToken,
                    access_token |-> account.accessToken,
                    expiry_date |-> NoExpiry],
   owner |-> ref]

\* accounts.ts:196: tokens.expiry_date || account.expiresAt || 0
ExpiresAt(tokens, account) ==
  IF tokens.expiry_date # NoExpiry THEN tokens.expiry_date
  ELSE IF account.expiresAt # NoExpiry THEN account.expiresAt
  ELSE NoExpiry

\* a refresh condition that also refreshes a token expiring exactly at the
\* margin
NeedsRefreshAtMargin(tokens, account, t) ==
  \/ tokens.access_token = Undefined
  \/ tokens.access_token = ""
  \/ ExpiresAt(tokens, account) <= t + RefreshMargin

\* accounts.ts:198: !tokens.access_token || expiresAt < now + 60000
NeedsRefresh(tokens, account, t) ==
  \/ tokens.access_token = Undefined
  \/ tokens.access_token = ""
  \/ ExpiresAt(tokens, account) < t + RefreshMargin

\* accounts.ts:181-188: the 'tokens' listener, applied to the account object
\* it closes over
OnTokens(account, tokens) ==
  IF tokens.access_token # Undefined /\ tokens.access_token # ""
  THEN [account EXCEPT !.accessToken = tokens.access_token,
                       !.expiresAt = IF tokens.expiry_date # NoExpiry
                                     THEN tokens.expiry_date ELSE @]
  ELSE account

\* accounts.ts:203-204: the write-through after a successful refresh
WriteThrough(account, credentials) ==
  [account EXCEPT !.accessToken = IF credentials.access_token # ""
                                  THEN credentials.access_token ELSE Undefined,
                  !.expiresAt = credentials.expiry_date]

\* RefreshFailedMessage that names the account by its id
RefreshFailedMessageById(account, e) ==
  "Failed to refresh token for " \o account.id \o ": " \o e

\* accounts.ts:206: the message of the Error a failed refresh is turned into
RefreshFailedMessage(account, e) ==
  "Failed to refresh token for " \o account.email \o ": " \o e

(***************************************************************************)
(* The identity provider.                                                  *)
(***************************************************************************)
TokenNames == <<"ya29.t1", "ya29.t2", "ya29.t3", "ya29.t4", "ya29.t5", "ya29.t6">>

\* the token the provider issues next
NextToken(iss) == TokenNames[Len(iss) + 1]

\* the provider issued this access token
IsIssued(iss, tok) == \E i \in 1..Len(iss) : TokenNames[i] = tok

\* when an issued access token stops working
TrueExpiry(iss, tok) == iss[CHOOSE i \in 1..Len(iss) : TokenNames[i] = tok]

\* the credentials of a token response: the provider may leave the expiry out
Response(iss, t, refreshToken, hasExpiry) ==
  [refresh_token |-> refreshToken,
   access_token |-> NextToken(iss),
   expiry_date |-> IF hasExpiry THEN t + TokenLifetime ELSE NoExpiry]


(***************************************************************************)
(* SearchConsoleService: the calls on the reporting API.                   *)
(***************************************************************************)
SiteUrls ==
  {"https://example.com/", "http://www.example.com/blog", "https://EXAMPLE.com:8443/",
   "sc-domain:example.com", "example.com", "ftp://example.com/"}

\* the calls wrapped in handlePermissionError (accounts.ts:315-324, 430-450)
FallbackOps == {"searchAnalytics", "listSitemaps", "submitSitemap"}
\* the calls made directly (accounts.ts:403-425)
DirectOps == {"inspectUrl", "submitUrlForIndexing"}

Messages ==
  {"User does not have sufficient permission for site", "PERMISSION_DENIED",
   "Requested entity was not found", "Quota exceeded"}

\* what the API answers a request with: data, or a thrown value that is an
\* Error instance or not
Data == [kind |-> "data", isError |-> FALSE, message |-> ""]
Thrown == [kind : {"thrown"}, isError : BOOLEAN, message : Messages]

\* new URL(url) (accounts.ts:277): whether the string parses, and the
\* protocol and hostname of the result
ParseUrl(url) ==
  CASE url = "https://example.com/" ->
         [ok |-> TRUE, protocol |-> "https:", hostname |-> "example.com"]
    [] url = "http://www.example.com/blog" ->
         [ok |-> TRUE, protocol |-> "http:", hostname |-> "www.example.com"]
    [] url = "https://EXAMPLE.com:8443/" ->
         [ok |-> TRUE, protocol |-> "https:", hostname |-> "example.com"]
    [] url = "sc-domain:example.com" ->
         [ok |-> TRUE, protocol |-> "sc-domain:", hostname |-> ""]
    [] url = "ftp://example.com/" ->
         [ok |-> TRUE, protocol |-> "ftp:", hostname |-> "example.com"]
    [] OTHER -> [ok |-> FALSE, protocol |-> "", hostname |-> ""]

\* normalizeUrl (accounts.ts:275-285)
NormalizeUrl(url) ==
  IF ParseUrl(url).ok /\ ParseUrl(url).protocol \in {"http:", "https:"}
  THEN "sc-domain:" \o ParseUrl(url).hostname
  ELSE url

\* IsPermissionError that takes every Error for a permission error
IsAnyError(err) == err.isError

\* accounts.ts:297: err instanceof Error && the lowercased message includes 'permission'
IsPermissionError(err) ==
  err.isError /\ Includes(ToLowerCase(err.message), "permission")

\* no call in progress
FacadeIdle ==
  [pc |-> "idle", op |-> "", siteUrl |-> "", requests |-> <<>>, replies |-> <<>>,
   outcome |-> Data]

(***************************************************************************)
(* SearchConsoleService.detectQuickWins (accounts.ts:329-398). Positions   *)
(* are in hundredths, a ctr fraction in ten-thousandths, a percentage in   *)
(* hundredths of a percent.                                                *)
(***************************************************************************)
MaxRows == 3            \* rows the reporting API returns to one query

\* a field the API left out of a row
Missing == -1

\* x || 0
OrZero(x) == IF x = Missing THEN 0 ELSE x

\* the ctr values 0.0000 .. 1.0000, in ten-thousandths, for which ctr * 100
\* in double arithmetic comes out above the percentage (0.07 * 100 is
\* 7.000000000000001, 0.0333 * 100 is 3.3300000000000005)
ProductAbove ==
  {
   35, 41, 47, 57, 70, 71, 82, 85, 94, 99, 114, 119, 140, 142, 145, 164,
   165, 170, 175, 188, 189, 193, 198, 199, 205, 228, 238, 251, 257, 261,
   280, 284, 290, 303, 307, 313, 323, 328, 330, 333, 340, 350, 357, 359,
   367, 369, 376, 378, 379, 386, 396, 398, 410, 413, 427, 439, 456, 459,
   476, 485, 502, 505, 514, 522, 531, 539, 551, 560, 568, 577, 580, 585,
   597, 606, 614, 626, 627, 631, 637, 646, 651, 655, 656, 660, 666, 671,
   680, 685, 689, 695, 700, 709, 714, 718, 727, 729, 734, 738, 743, 747,
   752, 756, 758, 763, 767, 772, 777, 781, 787, 792, 796, 811, 820, 826,
   829, 845, 854, 869, 878, 879, 887, 903, 912, 918, 937, 952, 961, 970,
   979, 995, 1004, 1010, 1019, 1028, 1029, 1044, 1053, 1062, 1078, 1087,
   1102, 1111, 1120, 1136, 1145, 1154, 1160, 1169, 1170, 1179, 1194, 1203,
   1212, 1228, 1237, 1252, 1254, 1259, 1262, 1269, 1274, 1277, 1279, 1287,
   1292, 1295, 1302, 1310, 1312, 1317, 1320, 1327, 1332, 1335, 1337, 1342,
   1345, 1353, 1360, 1370, 1375, 1378, 1385, 1390, 1393, 1395, 1400, 1403,
   1418, 1428, 1433, 1436, 1443, 1451, 1453, 1454, 1458, 1461, 1468, 1476,
   1479, 1486, 1494, 1501, 1504, 1511, 1512, 1516, 1519, 1526, 1529, 1531,
   1534, 1537, 1544, 1554, 1559, 1562, 1569, 1574, 1577, 1579, 1584, 1587,
   1592, 1595, 1615, 1622, 1640, 1647, 1652, 1658, 1665, 1683, 1690, 1695,
   1708, 1713, 1715, 1733, 1738, 1756, 1758, 1763, 1774, 1781, 1799, 1806,
   1824, 1831, 1836, 1849, 1874, 1879, 1897, 1899, 1904, 1922, 1940, 1947,
   1958, 1965, 1983, 1990, 1995, 2008, 2015, 2020, 2033, 2038, 2056, 2058,
   2063, 2081, 2083, 2088, 2099, 2106, 2124, 2131, 2149, 2156, 2174, 2179,
   2199, 2204, 2222, 2240, 2247, 2265, 2272, 2277, 2283, 2290, 2308, 2315,
   2320, 2333, 2338, 2340, 2358, 2363, 2381, 2383, 2388, 2399, 2406, 2424,
   2431, 2449, 2456, 2461, 2474, 2499, 2504, 2508, 2513, 2518, 2523, 2524,
   2529, 2533, 2538, 2543, 2548, 2549, 2554, 2558, 2559, 2565, 2574, 2579,
   2584, 2590, 2599, 2604, 2609, 2615, 2620, 2624, 2629, 2634, 2640, 2645,
   2649, 2654, 2659, 2664, 2665, 2670, 2674, 2679, 2681, 2684, 2690, 2695,
   2706, 2715, 2720, 2725, 2731, 2740, 2745, 2750, 2756, 2765, 2770, 2775,
   2780, 2781, 2786, 2790, 2795, 2800, 2805, 2806, 2811, 2831, 2836, 2841,
   2847, 2856, 2861, 2866, 2872, 2881, 2886, 2891, 2897, 2902, 2906, 2908,
   2911, 2916, 2922, 2927, 2931, 2933, 2936, 2947, 2952, 2958, 2963, 2972,
   2977, 2983, 2988, 2997, 3002, 3007, 3008, 3013, 3022, 3024, 3027, 3032,
   3033, 3038, 3047, 3049, 3052, 3057, 3058, 3062, 3063, 3068, 3074, 3083,
   3088, 3093, 3099, 3108, 3113, 3118, 3123, 3124, 3129, 3133, 3138, 3143,
   3148, 3149, 3154, 3158, 3163, 3168, 3173, 3174, 3179, 3183, 3184, 3190,
   3199, 3219, 3230, 3244, 3255, 3269, 3280, 3291, 3294, 3304, 3305, 3316,
   3330, 3341, 3355, 3365, 3366, 3380, 3390, 3391, 3405, 3415, 3416, 3426,
   3430, 3441, 3451, 3466, 3476, 3487, 3491, 3501, 3512, 3516, 3526, 3537,
   3541, 3548, 3551, 3562, 3573, 3587, 3598, 3612, 3623, 3637, 3648, 3662,
   3672, 3673, 3687, 3698, 3723, 3733, 3748, 3758, 3773, 3783, 3794, 3798,
   3808, 3819, 3844, 3855, 3869, 3880, 3894, 3905, 3916, 3919, 3929, 3930,
   3941, 3955, 3966, 3980, 3990, 3991, 4005, 4015, 4016, 4030, 4040, 4041,
   4051, 4055, 4066, 4076, 4091, 4101, 4112, 4116, 4126, 4137, 4141, 4151,
   4162, 4166, 4173, 4176, 4187, 4198, 4212, 4223, 4237, 4248, 4262, 4273,
   4287, 4297, 4298, 4312, 4323, 4348, 4358, 4373, 4383, 4398, 4408, 4419,
   4423, 4433, 4444, 4469, 4480, 4494, 4505, 4519, 4530, 4541, 4544, 4554,
   4555, 4566, 4580, 4591, 4605, 4615, 4616, 4630, 4640, 4641, 4655, 4665,
   4666, 4676, 4680, 4691, 4701, 4716, 4726, 4737, 4741, 4751, 4762, 4766,
   4776, 4787, 4791, 4798, 4801, 4812, 4823, 4837, 4848, 4862, 4873, 4887,
   4898, 4912, 4922, 4923, 4937, 4948, 4973, 4983, 4998, 5008, 5016, 5026,
   5036, 5037, 5046, 5047, 5048, 5057, 5058, 5066, 5069, 5076, 5086, 5087,
   5096, 5097, 5098, 5107, 5108, 5116, 5118, 5119, 5130, 5137, 5147, 5148,
   5157, 5158, 5168, 5169, 5179, 5180, 5187, 5191, 5197, 5198, 5207, 5208,
   5218, 5219, 5229, 5230, 5237, 5240, 5241, 5247, 5248, 5258, 5268, 5269,
   5279, 5280, 5290, 5291, 5298, 5301, 5308, 5318, 5319, 5328, 5329, 5330,
   5340, 5341, 5348, 5351, 5358, 5362, 5368, 5369, 5379, 5380, 5389, 5390,
   5391, 5401, 5412, 5419, 5423, 5429, 5430, 5439, 5440, 5441, 5450, 5451,
   5462, 5469, 5473, 5479, 5480, 5489, 5490, 5491, 5499, 5500, 5501, 5511,
   5512, 5523, 5530, 5540, 5541, 5550, 5551, 5560, 5561, 5562, 5572, 5573,
   5580, 5590, 5591, 5600, 5601, 5610, 5611, 5612, 5621, 5622, 5623, 5633,
   5641, 5651, 5661, 5662, 5671, 5672, 5673, 5682, 5683, 5691, 5694, 5701,
   5711, 5712, 5721, 5722, 5723, 5732, 5733, 5741, 5743, 5744, 5755, 5762,
   5772, 5773, 5782, 5783, 5793, 5794, 5804, 5805, 5812, 5816, 5822, 5823,
   5832, 5833, 5843, 5844, 5854, 5855, 5862, 5865, 5866, 5872, 5873, 5883,
   5893, 5894, 5904, 5905, 5915, 5916, 5923, 5926, 5933, 5943, 5944, 5953,
   5954, 5955, 5965, 5966, 5973, 5976, 5983, 5987, 5993, 5994, 6004, 6005,
   6014, 6015, 6016, 6026, 6037, 6044, 6048, 6054, 6055, 6064, 6065, 6066,
   6075, 6076, 6087, 6094, 6098, 6104, 6105, 6114, 6115, 6116, 6124, 6125,
   6126, 6136, 6137, 6148, 6155, 6165, 6166, 6175, 6176, 6185, 6186, 6187,
   6197, 6198, 6205, 6215, 6216, 6225, 6226, 6235, 6236, 6237, 6246, 6247,
   6248, 6258, 6266, 6276, 6286, 6287, 6296, 6297, 6298, 6307, 6308, 6316,
   6319, 6326, 6336, 6337, 6346, 6347, 6348, 6357, 6358, 6366, 6368, 6369,
   6380, 6387, 6397, 6398, 6407, 6427, 6438, 6449, 6457, 6460, 6471, 6477,
   6488, 6499, 6510, 6521, 6538, 6549, 6560, 6571, 6582, 6588, 6599, 6608,
   6610, 6621, 6632, 6649, 6660, 6671, 6682, 6699, 6710, 6719, 6721, 6730,
   6732, 6749, 6760, 6771, 6780, 6782, 6810, 6821, 6830, 6832, 6841, 6852,
   6860, 6871, 6882, 6891, 6902, 6921, 6932, 6941, 6952, 6963, 6971, 6974,
   6982, 6991, 7002, 7013, 7024, 7032, 7052, 7063, 7074, 7082, 7085, 7096,
   7102, 7113, 7124, 7135, 7146, 7163, 7174, 7185, 7196, 7207, 7213, 7224,
   7233, 7235, 7246, 7257, 7274, 7285, 7296, 7307, 7324, 7335, 7344, 7346,
   7355, 7357, 7374, 7385, 7396, 7405, 7407, 7435, 7446, 7455, 7457, 7466,
   7477, 7485, 7496, 7507, 7516, 7527, 7546, 7557, 7566, 7577, 7588, 7596,
   7599, 7607, 7616, 7627, 7638, 7649, 7657, 7677, 7688, 7699, 7707, 7710,
   7721, 7727, 7738, 7749, 7760, 7771, 7788, 7799, 7810, 7821, 7832, 7838,
   7849, 7858, 7860, 7871, 7882, 7899, 7910, 7921, 7932, 7949, 7960, 7969,
   7971, 7980, 7982, 7999, 8010, 8021, 8030, 8032, 8060, 8071, 8080, 8082,
   8091, 8102, 8110, 8121, 8132, 8141, 8152, 8171, 8182, 8191, 8202, 8213,
   8221, 8224, 8232, 8241, 8252, 8263, 8274, 8282, 8302, 8313, 8324, 8332,
   8335, 8346, 8352, 8363, 8374, 8385, 8396, 8413, 8424, 8435, 8446, 8457,
   8463, 8474, 8483, 8485, 8496, 8507, 8524, 8535, 8546, 8557, 8574, 8585,
   8594, 8596, 8605, 8607, 8624, 8635, 8646, 8655, 8657, 8685, 8696, 8705,
   8707, 8716, 8727, 8735, 8746, 8757, 8766, 8777, 8796, 8807, 8816, 8827,
   8838, 8846, 8849, 8857, 8866, 8877, 8888, 8899, 8907, 8927, 8938, 8949,
   8957, 8960, 8971, 8977, 8988, 8999, 9010, 9021, 9038, 9049, 9060, 9071,
   9082, 9088, 9099, 9108, 9110, 9121, 9132, 9149, 9160, 9171, 9182, 9199,
   9210, 9219, 9221, 9230, 9232, 9249, 9260, 9271, 9280, 9282, 9310, 9321,
   9330, 9332, 9341, 9352, 9360, 9371, 9382, 9391, 9402, 9421, 9432, 9441,
   9452, 9463, 9471, 9474, 9482, 9491, 9502, 9513, 9524, 9532, 9552, 9563,
   9574, 9582, 9585, 9596, 9602, 9613, 9624, 9635, 9646, 9663, 9674, 9685,
   9696, 9707, 9713, 9724, 9733, 9735, 9746, 9757, 9774, 9785, 9796, 9807,
   9824, 9835, 9844, 9846, 9855, 9857, 9874, 9885, 9896, 9905, 9907, 9935,
   9946, 9955, 9957, 9966, 9977, 9985, 9996
  }

\* ctr * 100 in double arithmetic: the percentage, and whether the product
\* comes out above it
Times100(ctr) == [hundredths |-> ctr, above |-> ctr \in ProductAbove]

\* ctr <= maxCtr for such a product
PercentLeq(percent, maxCtr) ==
  percent.hundredths < maxCtr \/ (percent.hundredths = maxCtr /\ ~percent.above)

\* a filter that keeps the rows of at most minImpressions impressions
QuickWinFilterAtMost(row, thresholds) ==
  /\ OrZero(row.impressions) <= thresholds.minImpressions
  /\ PercentLeq(Times100(OrZero(row.ctr)), thresholds.maxCtr)
  /\ OrZero(row.position) >= thresholds.positionRangeMin
  /\ OrZero(row.position) <= thresholds.positionRangeMax

\* the filter of accounts.ts:352-363
QuickWinFilter(row, thresholds) ==
  /\ OrZero(row.impressions) >= thresholds.minImpressions
  /\ PercentLeq(Times100(OrZero(row.ctr)), thresholds.maxCtr)
  /\ OrZero(row.position) >= thresholds.positionRangeMin
  /\ OrZero(row.position) <= thresholds.positionRangeMax

\* a target that leaves the boundary positions to the next tier
TargetCtrStrict(position) == IF position < 500 THEN 8 ELSE IF position < 1000 THEN 5 ELSE 3

\* accounts.ts:371
TargetCtr(position) == IF position <= 500 THEN 8 ELSE IF position <= 1000 THEN 5 ELSE 3

\* Math.round(num / den) for den > 0: halves go up
MathRound(num, den) == (2 * num + den) \div (2 * den)

\* Math.max(0, x)
Max0(x) == IF x > 0 THEN x ELSE 0

\* accounts.ts:376-379
Opportunity(additionalClicks) ==
  IF additionalClicks >= 100 THEN "High"
  ELSE IF additionalClicks >= 30 THEN "Medium"
  ELSE "Low"

\* row.keys?.[i] || 'N/A' (i counted from 1)
KeyOr(row, i) ==
  IF row.hasKeys /\ Len(row.keys) >= i /\ row.keys[i] # "" THEN row.keys[i] ELSE "N/A"

\* Number(position.toFixed(1)), in tenths, for a position that is a
\* multiple of 0.25
ToFixed1(position) == (position + 5) \div 10

\* the map stage (accounts.ts:364-393); targetCtr is what optimizationNote
\* shows of the computation
QuickWinOf(row) ==
  LET impressions == OrZero(row.impressions)
      currentClicks == OrZero(row.clicks)
      currentCtr == Times100(OrZero(row.ctr))
      position == OrZero(row.position)
      targetCtr == TargetCtr(position)
      potentialClicks == MathRound(impressions * targetCtr, 100)
      additionalClicks == Max0(potentialClicks - currentClicks)
  IN  [query |-> KeyOr(row, 1), page |-> KeyOr(row, 2),
       currentPosition |-> ToFixed1(position),
       impressions |-> impressions, currentClicks |-> currentClicks,
       currentCtr |-> currentCtr.hundredths,
       potentialClicks |-> potentialClicks, additionalClicks |-> additionalClicks,
       opportunity |-> Opportunity(additionalClicks), targetCtr |-> targetCtr]

\* the indices of the rows the filter keeps, in input order
FilterRows(rows, thresholds) ==
  SelectSeq([i \in 1..Len(rows) |-> i], LAMBDA i : QuickWinFilter(rows[i], thresholds))

\* Array.prototype.sort with (a, b) => b.additionalClicks - a.additionalClicks
\* (accounts.ts:394): stable, so an element goes behind those that do not
\* sort after it
RECURSIVE SortByAdditionalClicks(_, _)
SortByAdditionalClicks(order, rows) ==
  IF Len(order) = 0 THEN <<>>
  ELSE LET front == SortByAdditionalClicks(SubSeq(order, 1, Len(order) - 1), rows)
           last == order[Len(order)]
           k == Cardinality({j \in 1..Len(front) :
                  QuickWinOf(rows[front[j]]).additionalClicks
                    >= QuickWinOf(rows[last]).additionalClicks})
       IN  SubSeq(front, 1, k) \o <<last>> \o SubSeq(front, k + 1, Len(front))

\* Array.prototype.slice(0, end): a negative end counts from the end
Slice(seq, end) ==
  LET k == IF end < 0 THEN Max0(Len(seq) + end)
           ELSE IF end > Len(seq) THEN Len(seq) ELSE end
  IN  SubSeq(seq, 1, k)

\* detectQuickWins on the rows fetched: order names, for each row of the
\* result, the input row it was made from
DetectQuickWins(rows, thresholds) ==
  LET order == Slice(SortByAdditionalClicks(FilterRows(rows, thresholds), rows),
                     thresholds.limit)
  IN  [order |-> order, out |-> [i \in 1..Len(order) |-> QuickWinOf(rows[order[i]])]]

\* rows of the reporting API for dimensions ['query', 'page']
QuickWinRows ==
  { [hasKeys |-> TRUE, keys |-> <<"shoes", "/a">>,
     impressions |-> 1000, clicks |-> 20, ctr |-> 200, position |-> 600],
    [hasKeys |-> TRUE, keys |-> <<"boots", "/b">>,
     impressions |-> 1000, clicks |-> 20, ctr |-> 200, position |-> 1000],
    [hasKeys |-> TRUE, keys |-> <<"hats", "/c">>,
     impressions |-> 5000, clicks |-> 50, ctr |-> 100, position |-> 500],
    [hasKeys |-> TRUE, keys |-> <<"caps", "/d">>,
     impressions |-> 150, clicks |-> 3, ctr |-> 200, position |-> 1200],
    [hasKeys |-> FALSE, keys |-> <<>>,
     impressions |-> 1000, clicks |-> Missing, ctr |-> Missing, position |-> 725],
    [hasKeys |-> TRUE, keys |-> <<"socks", "/f">>,
     impressions |-> 1000, clicks |-> 70, ctr |-> 700, position |-> 800] }

\* the sequences of at most MaxRows rows out of a set
SeqsOf(S) == UNION {[1..n -> S] : n \in 0..MaxRows}

\* the thresholds of QuickWinsSchema (schemas.ts:67-75)
Thresholds ==
  [minImpressions : {100, 1000}, maxCtr : {300, 1000},
   positionRangeMin : {400, 700}, positionRangeMax : {1000, 2000},
   limit : {-1, 0, 2, 50}]

(***************************************************************************)
(* SearchConsoleService.comparePeriods (accounts.ts:455-568).              *)
(***************************************************************************)
MaxCompareRows == 2     \* rows the reporting API returns for one period

\* Array.prototype.join('|')
RECURSIVE JoinKeys(_)
JoinKeys(keys) ==
  IF Len(keys) = 0 THEN ""
  ELSE IF Len(keys) = 1 THEN keys[1]
  ELSE keys[1] \o "|" \o JoinKeys(SubSeq(keys, 2, Len(keys)))

\* row.keys?.join('|')
KeyOf(row) == IF row.hasKeys THEN JoinKeys(row.keys) ELSE Undefined

\* previousLookup (accounts.ts:485-487): the Map from the joined key to the
\* index of the previous-period row; a later row replaces an earlier one of
\* the same key
RECURSIVE PreviousLookup(_, _)
PreviousLookup(previousRows, n) ==
  IF n = 0 THEN <<>>
  ELSE MapSet(PreviousLookup(previousRows, n - 1), KeyOf(previousRows[n]), n)

\* no previous-period row
NoRow == 0

\* previousLookup.get(key || '') (accounts.ts:491-492)
PreviousRowOf(currentRow, previousRows) ==
  LET key == KeyOf(currentRow)
      k == IF key = Undefined THEN "" ELSE key
      lookup == PreviousLookup(previousRows, Len(previousRows))
  IN  IF MapHas(lookup, k) THEN MapGet(lookup, k) ELSE NoRow

\* Number(x.toFixed(1)), in tenths, for a double x that is exactly num /
\* den (den > 0) or nearer to it than to any tie: an exact tie goes away
\* from zero
ToFixed1Of(num, den) ==
  IF num >= 0 THEN (20 * num + den) \div (2 * den)
  ELSE 0 - ((20 * (0 - num) + den) \div (2 * den))

\* the (current, previous) clicks, among the sums of up to three of the
\* click counts of CompareRows, for which ((current - previous) / previous)
\* * 100 is a tie between two tenths in exact arithmetic and comes out just
\* short of it in double arithmetic ((103 - 80) / 80 * 100 is
\* 28.749999999999996), so that toFixed(1) gives the tenth nearer to zero
FallsShort ==
  {<<87, 240>>, <<103, 80>>, <<167, 80>>, <<206, 160>>, <<242, 160>>, <<262, 160>>,
   <<287, 400>>, <<309, 240>>, <<334, 160>>, <<403, 80>>}

\* the tenth next to t on the side of zero
TowardZero(t) == IF t > 0 THEN t - 1 ELSE t + 1

\* Number(x.toFixed(1)) for a difference of positions, in tenths: a tie
\* goes away from zero
ToFixed1Signed(position) ==
  IF position >= 0 THEN ToFixed1(position) ELSE 0 - ToFixed1(0 - position)

\* previous > 0 ? Number((((current - previous) / previous) * 100).toFixed(1)) : null
\* (accounts.ts:519-521, 561-563)
ClicksPercent(current, previous) ==
  IF previous > 0
  THEN [isNull |-> FALSE,
        tenths |-> IF <<current, previous>> \in FallsShort
                   THEN TowardZero(ToFixed1Of(100 * (current - previous), previous))
                   ELSE ToFixed1Of(100 * (current - previous), previous)]
  ELSE [isNull |-> TRUE, tenths |-> 0]

\* one element of comparison (accounts.ts:490-527)
ComparisonOf(currentRow, previousRows) ==
  LET p == PreviousRowOf(currentRow, previousRows)
      currentClicks == OrZero(currentRow.clicks)
      previousClicks == IF p = NoRow THEN 0 ELSE OrZero(previousRows[p].clicks)
      currentImpressions == OrZero(currentRow.impressions)
      previousImpressions == IF p = NoRow THEN 0 ELSE OrZero(previousRows[p].impressions)
      currentPosition == OrZero(currentRow.position)
      previousPosition == IF p = NoRow THEN 0 ELSE OrZero(previousRows[p].position)
      currentCtr == Times100(OrZero(currentRow.ctr))
      previousCtr == Times100(IF p = NoRow THEN 0 ELSE OrZero(previousRows[p].ctr))
  IN  [hasKeys |-> currentRow.hasKeys, keys |-> currentRow.keys,
       current |-> [clicks |-> currentClicks, impressions |-> currentImpressions,
                    position |-> ToFixed1(currentPosition), ctr |-> currentCtr.hundredths],
       previous |-> [clicks |-> previousClicks, impressions |-> previousImpressions,
                     position |-> ToFixed1(previousPosition), ctr |-> previousCtr.hundredths],
       change |-> [clicks |-> currentClicks - previousClicks,
                   clicksPercent |-> ClicksPercent(currentClicks, previousClicks),
                   impressions |-> currentImpressions - previousImpressions,
                   position |-> ToFixed1Signed(previousPosition - currentPosition),
                   ctr |-> currentCtr.hundredths - previousCtr.hundredths]]

\* comparison.sort((a, b) => b.change.clicks - a.change.clicks)
\* (accounts.ts:530), over the indices of the current rows
RECURSIVE SortByClicksChange(_, _, _)
SortByClicksChange(order, currentRows, previousRows) ==
  IF Len(order) = 0 THEN <<>>
  ELSE LET front == SortByClicksChange(SubSeq(order, 1, Len(order) - 1),
                                       currentRows, previousRows)
           last == order[Len(order)]
           k == Cardinality({j \in 1..Len(front) :
                  ComparisonOf(currentRows[front[j]], previousRows).change.clicks
                    >= ComparisonOf(currentRows[last], previousRows).change.clicks})
       IN  SubSeq(front, 1, k) \o <<last>> \o SubSeq(front, k + 1, Len(front))

\* a reduce whose callback drops the accumulator
TotalsNoAccumulator(rows, n) ==
  IF n = 0 THEN [clicks |-> 0, impressions |-> 0]
  ELSE [clicks |-> OrZero(rows[n].clicks), impressions |-> OrZero(rows[n].impressions)]

\* the reduce of accounts.ts:533-547
RECURSIVE Totals(_, _)
Totals(rows, n) ==
  IF n = 0 THEN [clicks |-> 0, impressions |-> 0]
  ELSE [clicks |-> Totals(rows, n - 1).clicks + OrZero(rows[n].clicks),
        impressions |-> Totals(rows, n - 1).impressions + OrZero(rows[n].impressions)]

\* comparePeriods on the rows fetched for the two periods: order names, for
\* each element of comparison, the current row it was made from
ComparePeriods(currentRows, previousRows) ==
  LET order == SortByClicksChange([i \in 1..Len(currentRows) |-> i],
                                  currentRows, previousRows)
      currentTotals == Totals(currentRows, Len(currentRows))
      previousTotals == Totals(previousRows, Len(previousRows))
  IN  [order |-> order,
       comparison |-> [i \in 1..Len(order) |->
                         ComparisonOf(currentRows[order[i]], previousRows)],
       summary |-> [currentPeriod |-> currentTotals, previousPeriod |-> previousTotals,
                    change |-> [clicks |-> currentTotals.clicks - previousTotals.clicks,
                                clicksPercent |-> ClicksPercent(currentTotals.clicks,
                                                                previousTotals.clicks),
                                impressions |-> currentTotals.impressions
                                                  - previousTotals.impressions]]]

\* rows of the reporting API for dimensions ['page', 'query']
CompareRows ==
  { [hasKeys |-> TRUE, keys |-> <<"/a", "shoes">>,
     clicks |-> 150, impressions |-> 2000, ctr |-> 750, position |-> 425],
    [hasKeys |-> TRUE, keys |-> <<"/a", "shoes">>,
     clicks |-> 100, impressions |-> 1800, ctr |-> 556, position |-> 550],
    [hasKeys |-> TRUE, keys |-> <<"/a", "b|c">>,
     clicks |-> 5, impressions |-> 100, ctr |-> 500, position |-> 1000],
    [hasKeys |-> TRUE, keys |-> <<"/a|b", "c">>,
     clicks |-> 3, impressions |-> 90, ctr |-> 333, position |-> 1225],
    [hasKeys |-> TRUE, keys |-> <<"/n", "new">>,
     clicks |-> 0, impressions |-> 10, ctr |-> 0, position |-> 3000],
    [hasKeys |-> TRUE, keys |-> <<"/t", "hats">>,
     clicks |-> 103, impressions |-> 1000, ctr |-> 1030, position |-> 300],
    [hasKeys |-> TRUE, keys |-> <<"/t", "hats">>,
     clicks |-> 80, impressions |-> 1000, ctr |-> 800, position |-> 350],
    [hasKeys |-> TRUE, keys |-> <<"/t", "hats">>,
     clicks |-> 81, impressions |-> 900, ctr |-> 900, position |-> 325] }

\* the responses of the API for one period: at most MaxCompareRows rows, no
\* two for the same dimension values
CompareResponses ==
  {rows \in UNION {[1..n -> CompareRows] : n \in 0..MaxCompareRows} :
     \A i, j \in 1..Len(rows) : rows[i].keys = rows[j].keys => i = j}

\* no analytics call in progress
EngineIdle == [fn |-> "idle"]

(***************************************************************************)
(* The CallTool handler of the two servers: "multi" resolves the account   *)
(* through the AccountManager (schemas.ts), "vdl" through the Supabase     *)
(* provider (index.ts, supabase-auth.ts).                                  *)
(***************************************************************************)
Servers == {"multi", "vdl"}

\* the tools that take an account argument (schemas.ts:296-546)
ToolNames ==
  {"list_sites", "search_analytics", "detect_quick_wins", "compare_periods",
   "inspect_url", "submit_url_for_indexing", "list_sitemaps", "submit_sitemap"}

\* the SearchConsoleService method a tool calls
OpOf(name) ==
  CASE name = "list_sites" -> "listSites"
    [] name \in {"search_analytics", "detect_quick_wins", "compare_periods"} ->
         "searchAnalytics"
    [] name = "inspect_url" -> "inspectUrl"
    [] name = "submit_url_for_indexing" -> "submitUrlForIndexing"
    [] name = "list_sitemaps" -> "listSitemaps"
    [] OTHER -> "submitSitemap"

\* how many times the tool calls it at once: comparePeriods queries both
\* periods in one Promise.all (accounts.ts:464-481)
LegsOf(name) == IF name = "compare_periods" THEN 2 ELSE 1

\* an error without a numeric code (a network error)
NoCode == 0

\* what the API rejects a request with: an Error or another thrown value,
\* its message and its code
ApiErrors ==
  {[isError |-> TRUE, message |-> "User does not have sufficient permission for site",
    code |-> 403],
   [isError |-> TRUE, message |-> "Indexing API has not been used in project", code |-> 403],
   [isError |-> TRUE, message |-> "Requested entity was not found", code |-> 404],
   [isError |-> TRUE, message |-> "socket hang up", code |-> NoCode],
   [isError |-> FALSE, message |-> "PERMISSION_DENIED", code |-> 403]}

\* what a query of gsc_connections returns: the e-mails of the valid
\* connections, ordered (supabase-auth.ts:36-46)
ConnectionLists == {<<>>, <<"A@b.cd">>, <<"c@d.ef">>, <<"A@b.cd", "c@d.ef">>}

\* error.message of a failed Supabase query
QueryErrors == {"connection refused"}

NoOutcome ==
  [kind |-> "none", class |-> "", code |-> NoCode, message |-> "",
   success |-> "absent", suggestion |-> FALSE]

\* a thrown error: class is "McpError.InvalidParams", "McpError.InternalError",
\* "TypeError", "Error" (a plain Error) or "ApiError" (what the API call
\* rejected with)
Throws(class, code, message) ==
  [kind |-> "throws", class |-> class, code |-> code, message |-> message,
   success |-> "absent", suggestion |-> FALSE]

\* a returned { content: [...] } whose JSON has success true, success false
\* or no success field and, if suggestion, a suggestion field
Responds(success, suggestion) ==
  [kind |-> "response", class |-> "", code |-> NoCode, message |-> "",
   success |-> success, suggestion |-> suggestion]

\* the success field of the response of a tool whose call went through
SuccessOf(name) ==
  IF name \in {"submit_url_for_indexing", "submit_sitemap"} THEN "true" ELSE "absent"

ToolIdle ==
  [pc |-> "idle", server |-> "", name |-> "", valid |-> TRUE, account |-> Undefined,
   stage |-> "", conns |-> <<>>, i |-> 0, email |-> "", lookup |-> "",
   requests |-> 0, legs |-> <<>>, reply |-> [kind |-> "none"], outcome |-> NoOutcome]

\* a catch clause that treats every client error alike
IndexingAnyClientError(code) == code \in 400..499

\* error.code === 403 (schemas.ts:495, index.ts:377)
IndexingNotEnabled(code) == code = 403

\* the handler calls the service method, which sends its requests
StartCalling(t) ==
  [t EXCEPT !.pc = "calling", !.legs = [k \in 1..LegsOf(t.name) |-> "operation"],
            !.requests = LegsOf(t.name)]

\* accounts.find(a => a.email.toLowerCase() === email.toLowerCase())
\* (supabase-auth.ts:87): the index of the first match, or 0
FindAccount(accts, email) ==
  IF \E n \in 1..Len(accts) : ToLowerCase(accts[n]) = ToLowerCase(email)
  THEN CHOOSE n \in 1..Len(accts) :
         /\ ToLowerCase(accts[n]) = ToLowerCase(email)
         /\ \A m \in 1..(n - 1) : ToLowerCase(accts[m]) # ToLowerCase(email)
  ELSE 0

\* the handler after a listAccounts of the provider has returned accts:
\* in getServiceForAccount (index.ts:76-90), in getAuthClient
\* (supabase-auth.ts:93-97) and in getSitesForAccount (supabase-auth.ts:140-144)
AfterListAccounts(t, accts) ==
  CASE t.stage = "resolve" ->
         IF t.account # Undefined /\ t.account # ""
         THEN IF FindAccount(accts, t.account) = 0
              THEN [t EXCEPT !.pc = "done", !.lookup = "none",
                             !.outcome = Throws("McpError.InvalidParams", NoCode,
                                                "Account not found: " \o t.account)]
              ELSE [t EXCEPT !.pc = "connections", !.stage = "client", !.lookup = "found",
                             !.email = accts[FindAccount(accts, t.account)]]
         ELSE IF Len(accts) = 0
              THEN [t EXCEPT !.pc = "done", !.lookup = "none",
                             !.outcome = Throws("McpError.InternalError", NoCode,
                                                "No GSC accounts available")]
              ELSE [t EXCEPT !.pc = "connections", !.stage = "client", !.lookup = "found",
                             !.email = accts[1]]
    [] t.stage = "client" ->
         IF FindAccount(accts, t.email) = 0
         THEN [t EXCEPT !.pc = "done", !.lookup = "gone",
                        !.outcome = Throws("Error", NoCode, "Account not found: " \o t.email)]
         ELSE IF t.name = "list_sites"
              THEN [t EXCEPT !.pc = "connections", !.stage = "sites"]
              ELSE StartCalling(t)
    [] OTHER ->
         IF FindAccount(accts, t.email) = 0
         THEN [t EXCEPT !.pc = "done",
                        !.outcome = Throws("Error", NoCode, "Account not found: " \o t.email)]
         ELSE [t EXCEPT !.pc = "siteRows"]

(***************************************************************************)
(* Startup: AccountManager.fromEnvironment (accounts.ts:53-102).           *)
(***************************************************************************)
\* inside fromEnvironment, after `new AccountManager(...)` (accounts.ts:61)
InitStartup ==
  /\ phase = "json"
  /\ heap = <<>>
  /\ accounts = <<>>
  /\ clients = <<>>
  /\ authClients = <<>>
  /\ pending = <<>>
  /\ issued = <<>>
  /\ now = StartTime
  /\ ticks = 0
  /\ ret = [kind |-> "none"]
  /\ facade = FacadeIdle
  /\ engine = EngineIdle
  /\ tool = ToolIdle

\* the manager fromEnvironment returns when no account source is set: the
\* empty maps of the constructor (accounts.ts:40-48)
Init ==
  /\ phase = "serving"
  /\ heap = <<>>
  /\ accounts = <<>>
  /\ clients = <<>>
  /\ authClients = <<>>
  /\ pending = <<>>
  /\ issued = <<>>
  /\ now = StartTime
  /\ ticks = 0
  /\ ret = [kind |-> "none"]
  /\ facade = FacadeIdle
  /\ engine = EngineIdle
  /\ tool = ToolIdle

NextSource(p) == IF p = "json" THEN "file" ELSE "single"

\* accounts.ts:68-70 and 81-83: one iteration of a source's loop. When
\* addAccount throws, the catch around the loop ends the source.
LoadEntry(account) ==
  /\ phase \in {"json", "file"}
  /\ Len(heap) < MaxAccounts
  /\ LET r == AddAccount(accounts, authClients, account, Len(heap) + 1)
     IN  /\ heap' = Append(heap, account)
         /\ accounts' = r.accounts
         /\ authClients' = r.authClients
         /\ phase' = IF r.threw THEN NextSource(phase) ELSE phase
         /\ ret' = [kind |-> IF r.threw THEN "loadFailed" ELSE "loaded"]
  /\ UNCHANGED <<clients, pending, issued, now, ticks, facade, engine, tool>>

\* the source is absent, does not parse, or has no further entries
EndSource ==
  /\ phase \in {"json", "file"}
  /\ phase' = NextSource(phase)
  /\ ret' = [kind |-> "none"]
  /\ UNCHANGED <<heap, accounts, clients, authClients, pending, issued, now, ticks, facade, engine, tool>>

\* accounts.ts:90-99: the single account of GSC_REFRESH_TOKEN, whose email
\* is GSC_EMAIL or 'default'
LoadSingle(email, refreshToken, accessToken) ==
  /\ phase = "single"
  /\ Len(heap) < MaxAccounts
  /\ LET account == [id |-> "default", email |-> email, refreshToken |-> refreshToken,
                     accessToken |-> accessToken, expiresAt |-> NoExpiry]
         r == AddAccount(accounts, authClients, account, Len(heap) + 1)
     IN  /\ heap' = Append(heap, account)
         /\ accounts' = r.accounts
         /\ authClients' = r.authClients
  /\ phase' = "serving"
  /\ ret' = [kind |-> "loaded"]
  /\ UNCHANGED <<clients, pending, issued, now, ticks, facade, engine, tool>>

\* GSC_REFRESH_TOKEN is not set
SkipSingle ==
  /\ phase = "single"
  /\ phase' = "serving"
  /\ ret' = [kind |-> "none"]
  /\ UNCHANGED <<heap, accounts, clients, authClients, pending, issued, now, ticks, facade, engine, tool>>

(***************************************************************************)
(* Tool calls.                                                             *)
(***************************************************************************)
\* register_account (schemas.ts:263-281) -> registerAccount (accounts.ts:119-121)
Register(account) ==
  /\ phase = "serving"
  /\ Len(heap) < MaxAccounts
  /\ LET r == AddAccount(accounts, authClients, account, Len(heap) + 1)
     IN  /\ heap' = Append(heap, account)
         /\ accounts' = r.accounts
         /\ authClients' = r.authClients
         /\ ret' = [kind |-> "registered",
                    totalAccounts |-> Count(r.accounts, Append(heap, account))]
  /\ UNCHANGED <<phase, clients, pending, issued, now, ticks, facade, engine, tool>>

\* getAuthClient up to its return, its throw, or its suspension at
\* `await client.refreshAccessToken()` (accounts.ts:150-201)
GetAuthClient(idOrEmail) ==
  /\ phase = "serving"
  /\ LET r == Resolve(accounts, heap, idOrEmail)
     IN  IF r.account = NoAccount
         THEN /\ ret' = [kind |-> "error", message |-> r.message]
              /\ UNCHANGED <<clients, authClients, pending>>
         ELSE LET account == heap[r.account]
                  cacheKey == account.id
                  hit == MapHas(authClients, cacheKey)
                  c == IF hit THEN MapGet(authClients, cacheKey) ELSE Len(clients) + 1
                  clients1 == IF hit THEN clients
                              ELSE Append(clients, NewClient(account, r.account))
              IN  /\ hit \/ Len(clients) < MaxClients
                  /\ clients' = clients1
                  /\ authClients' = IF hit THEN authClients
                                    ELSE MapSet(authClients, cacheKey, c)
                  /\ IF NeedsRefresh(clients1[c].credentials, account, now)
                     THEN /\ Len(pending) < MaxPending
                          /\ pending' = Append(pending, [client |-> c, account |-> r.account])
                          /\ ret' = [kind |-> "suspended"]
                     ELSE /\ pending' = pending
                          /\ ret' = [kind |-> "ok", client |-> c, account |-> r.account]
  /\ UNCHANGED <<phase, heap, accounts, issued, now, ticks, facade, engine, tool>>

\* a 'tokens' listener that looks up, when the event arrives, the record
\* last registered under the id of the client's account
EmitToRegistered(hp, cls, c, tokens) ==
  LET latest == CHOOSE n \in 1..Len(hp) :
                  /\ hp[n].id = hp[cls[c].owner].id
                  /\ \A m \in 1..Len(hp) : hp[m].id = hp[n].id => m <= n
  IN  [hp EXCEPT ![latest] = OnTokens(@, tokens)]

\* the 'tokens' event of client c carrying tokens (accounts.ts:181-188)
Emit(hp, cls, c, tokens) ==
  [hp EXCEPT ![cls[c].owner] = OnTokens(@, tokens)]

\* the calls of pend that await the refresh of client c, and the others.
\* client.refreshAccessToken() of calls on one client with one refresh
\* token share one request of the library: they are answered together
Waiting(pend, c) == SelectSeq(pend, LAMBDA call : call.client = c)
Others(pend, c) == SelectSeq(pend, LAMBDA call : call.client # c)

\* the refresh request of client c resolves and the getAuthClient calls
\* suspended on it run to their return, oldest first (accounts.ts:201-210).
\* The library may emit 'tokens' for the refresh before it resolves.
RefreshOk(c, hasExpiry, emits) ==
  /\ Len(Waiting(pending, c)) > 0
  /\ Len(issued) < MaxIssued
  /\ LET waiting == Waiting(pending, c)
         credentials == Response(issued, now, clients[c].credentials.refresh_token,
                                 hasExpiry)
         heap1 == IF emits THEN Emit(heap, clients, c, credentials) ELSE heap
     IN  /\ clients' = [clients EXCEPT ![c].credentials = credentials]
         /\ heap' = [n \in 1..Len(heap1) |->
                       IF \E i \in 1..Len(waiting) : waiting[i].account = n
                       THEN WriteThrough(heap1[n], credentials) ELSE heap1[n]]
         /\ ret' = [kind |-> "ok", client |-> c,
                    account |-> waiting[Len(waiting)].account]
  /\ issued' = Append(issued, now + TokenLifetime)
  /\ pending' = Others(pending, c)
  /\ UNCHANGED <<phase, accounts, authClients, now, ticks, facade, engine, tool>>

\* a catch clause that, before it throws, drops the handle from the cache
\* and the access token from the record
RefreshFailEvicts(c, e) ==
  /\ Len(Waiting(pending, c)) > 0
  /\ pending' = Others(pending, c)
  /\ LET waiting == Waiting(pending, c)
         account == waiting[Len(waiting)].account
     IN  /\ ret' = [kind |-> "error", message |-> RefreshFailedMessage(heap[account], e)]
         /\ authClients' = MapDelete(authClients, heap[account].id)
         /\ heap' = [heap EXCEPT ![account].accessToken = Undefined]
  /\ UNCHANGED <<phase, accounts, clients, issued, now, ticks, facade, engine, tool>>

\* the refresh request of client c rejects with e and the calls suspended
\* on it throw, oldest first (accounts.ts:205-207)
RefreshFail(c, e) ==
  /\ Len(Waiting(pending, c)) > 0
  /\ pending' = Others(pending, c)
  /\ LET waiting == Waiting(pending, c)
     IN  ret' = [kind |-> "error",
                 message |-> RefreshFailedMessage(heap[waiting[Len(waiting)].account], e)]
  /\ UNCHANGED <<phase, heap, accounts, clients, authClients, issued, now, ticks, facade, engine, tool>>

\* an authenticated API call on client c, which has no refresh in flight,
\* refreshes the token on its own: the library replaces the client's
\* credentials and emits 'tokens'
TokensEvent(c, hasExpiry) ==
  /\ c \in 1..Len(clients)
  /\ Len(Waiting(pending, c)) = 0
  /\ Len(issued) < MaxIssued
  /\ LET credentials == Response(issued, now, clients[c].credentials.refresh_token, hasExpiry)
     IN  /\ clients' = [clients EXCEPT ![c].credentials = credentials]
         /\ heap' = Emit(heap, clients, c, credentials)
  /\ issued' = Append(issued, now + TokenLifetime)
  /\ ret' = [kind |-> "none"]
  /\ UNCHANGED <<phase, accounts, authClients, pending, now, ticks, facade, engine, tool>>

\* time passes
Tick ==
  /\ ticks < MaxTicks
  /\ ticks' = ticks + 1
  /\ now' = now + TickMs
  /\ ret' = [kind |-> "none"]
  /\ UNCHANGED <<phase, heap, accounts, clients, authClients, pending, issued, facade, engine, tool>>

(***************************************************************************)
(* A SearchConsoleService call: requests holds the site URLs of the API    *)
(* requests made, replies what the API answered to each.                   *)
(***************************************************************************)
mgrVars == <<phase, heap, accounts, clients, authClients, pending, issued, now, ticks, ret>>

\* a service method is called and sends its first request with the site
\* URL as given (accounts.ts:295, 318, 433, 444; 405, 419)
Call(op, siteUrl) ==
  /\ facade.pc \in {"idle", "returned", "threw"}
  /\ facade' = [pc |-> "operation", op |-> op, siteUrl |-> siteUrl,
                requests |-> <<siteUrl>>, replies |-> <<>>, outcome |-> Data]
  /\ UNCHANGED <<mgrVars, engine, tool>>

\* the first request resolves (accounts.ts:295)
OperationResolves ==
  /\ facade.pc = "operation"
  /\ facade' = [facade EXCEPT !.pc = "returned", !.replies = Append(@, Data),
                              !.outcome = Data]
  /\ UNCHANGED <<mgrVars, engine, tool>>

\* the first request rejects with err (accounts.ts:296-300): a wrapped call
\* sends the fallback request on a permission error and rethrows otherwise
OperationRejects(err) ==
  /\ facade.pc = "operation"
  /\ IF facade.op \in FallbackOps /\ IsPermissionError(err)
     THEN facade' = [facade EXCEPT !.pc = "fallback", !.replies = Append(@, err),
                                   !.requests = Append(@, NormalizeUrl(facade.siteUrl))]
     ELSE facade' = [facade EXCEPT !.pc = "threw", !.replies = Append(@, err),
                                   !.outcome = err]
  /\ UNCHANGED <<mgrVars, engine, tool>>

\* the fallback request resolves (accounts.ts:298)
FallbackResolves ==
  /\ facade.pc = "fallback"
  /\ facade' = [facade EXCEPT !.pc = "returned", !.replies = Append(@, Data),
                              !.outcome = Data]
  /\ UNCHANGED <<mgrVars, engine, tool>>

\* the fallback request rejects with err (accounts.ts:298)
FallbackRejects(err) ==
  /\ facade.pc = "fallback"
  /\ facade' = [facade EXCEPT !.pc = "threw", !.replies = Append(@, err),
                              !.outcome = err]
  /\ UNCHANGED <<mgrVars, engine, tool>>

(***************************************************************************)
(* Spec: a server started with no account source configured (the empty     *)
(* manager of the constructor), serving tool calls for one account id.     *)
(***************************************************************************)
Next ==
  \/ \E account \in LiveInputs : Register(account)
  \/ \E idOrEmail \in LiveSelectors \cup {Undefined} : GetAuthClient(idOrEmail)
  \/ \E c \in 1..MaxClients, hasExpiry \in BOOLEAN, emits \in BOOLEAN :
       RefreshOk(c, hasExpiry, emits)
  \/ \E c \in 1..MaxClients, e \in Causes : RefreshFail(c, e)
  \/ \E c \in 1..MaxClients, hasExpiry \in BOOLEAN : TokensEvent(c, hasExpiry)
  \/ Tick

Spec == Init /\ [][Next]_vars

(***************************************************************************)
(* SpecStore: startup from the configured sources, then registration and   *)
(* account resolution over several ids and emails; the identity provider   *)
(* is unreachable, so every refresh fails.                                 *)
(***************************************************************************)
NextStore ==
  \/ \E account \in ConfigInputs : LoadEntry(account)
  \/ EndSource
  \/ \E email \in SingleEmails, c \in Credentials : LoadSingle(email, c[1], c[2])
  \/ SkipSingle
  \/ \E account \in RegisterInputs : Register(account)
  \/ \E idOrEmail \in Selectors \cup {Undefined} : GetAuthClient(idOrEmail)
  \/ \E c \in 1..MaxClients, e \in Causes : RefreshFail(c, e)

SpecStore == InitStartup /\ [][NextStore]_vars


(***************************************************************************)
(* SpecFacade: the calls of one SearchConsoleService on the reporting API. *)
(***************************************************************************)
NextFacade ==
  \/ \E op \in FallbackOps \cup DirectOps, siteUrl \in SiteUrls : Call(op, siteUrl)
  \/ OperationResolves
  \/ \E err \in Thrown : OperationRejects(err)
  \/ FallbackResolves
  \/ \E err \in Thrown : FallbackRejects(err)

SpecFacade == Init /\ [][NextFacade]_vars

(***************************************************************************)
(* SpecQuickWins: detectQuickWins over the rows the reporting API has      *)
(* returned to its query.                                                  *)
(***************************************************************************)
\* the await of accounts.ts:344 has resolved with rows
InitQuickWins ==
  /\ phase = "serving"
  /\ heap = <<>>
  /\ accounts = <<>>
  /\ clients = <<>>
  /\ authClients = <<>>
  /\ pending = <<>>
  /\ issued = <<>>
  /\ now = StartTime
  /\ ticks = 0
  /\ ret = [kind |-> "none"]
  /\ facade = FacadeIdle
  /\ tool = ToolIdle
  /\ engine \in {[fn |-> "detectQuickWins", pc |-> "fetched", rows |-> rows,
                  thresholds |-> thresholds, order |-> <<>>, out |-> <<>>] :
                   rows \in SeqsOf(QuickWinRows), thresholds \in Thresholds}

\* accounts.ts:351-397: filter, map, sort, slice and return
DetectQuickWinsReturns ==
  /\ engine.pc = "fetched"
  /\ LET r == DetectQuickWins(engine.rows, engine.thresholds)
     IN  engine' = [engine EXCEPT !.pc = "returned", !.order = r.order, !.out = r.out]
  /\ UNCHANGED <<mgrVars, facade, tool>>

NextQuickWins == DetectQuickWinsReturns

SpecQuickWins == InitQuickWins /\ [][NextQuickWins]_vars

(***************************************************************************)
(* SpecCompare: comparePeriods over the rows the reporting API has         *)
(* returned for the two periods.                                           *)
(***************************************************************************)
\* the Promise.all of accounts.ts:464-481 has resolved
InitCompare ==
  /\ phase = "serving"
  /\ heap = <<>>
  /\ accounts = <<>>
  /\ clients = <<>>
  /\ authClients = <<>>
  /\ pending = <<>>
  /\ issued = <<>>
  /\ now = StartTime
  /\ ticks = 0
  /\ ret = [kind |-> "none"]
  /\ facade = FacadeIdle
  /\ tool = ToolIdle
  /\ engine \in {[fn |-> "comparePeriods", pc |-> "fetched", currentRows |-> c,
                  previousRows |-> p, order |-> <<>>, comparison |-> <<>>,
                  summary |-> ComparePeriods(<<>>, <<>>).summary] :
                   c \in CompareResponses, p \in CompareResponses}

\* accounts.ts:483-567: join, sort, totals and return
ComparePeriodsReturns ==
  /\ engine.pc = "fetched"
  /\ LET r == ComparePeriods(engine.currentRows, engine.previousRows)
     IN  engine' = [engine EXCEPT !.pc = "returned", !.order = r.order,
                                  !.comparison = r.comparison, !.summary = r.summary]
  /\ UNCHANGED <<mgrVars, facade, tool>>

NextCompare == ComparePeriodsReturns

SpecCompare == InitCompare /\ [][NextCompare]_vars

(***************************************************************************)
(* SpecTool: registrations, then one tool call on either server. The       *)
(* handler awaits the account resolution and then the API.                 *)
(***************************************************************************)
\* the handler is entered and its case reads the arguments (schemas.ts:
\* 258-262 and the first line of each case). XSchema.parse(args) throws a
\* ZodError, caught at schemas.ts:553-559 and rethrown as
\* McpError(InvalidParams); list_sites destructures args unparsed
\* (schemas.ts:297, index.ts:178), which throws a TypeError when the call
\* has no arguments. With arguments read, the "vdl" handler sends its first
\* query of gsc_connections.
ToolCall(server, name, valid, account) ==
  /\ tool.pc = "idle"
  /\ tool' = IF valid
             THEN [ToolIdle EXCEPT !.pc = IF server = "multi" THEN "resolving"
                                          ELSE "connections",
                                   !.stage = IF server = "multi" THEN "" ELSE "resolve",
                                   !.server = server, !.name = name, !.account = account]
             ELSE [ToolIdle EXCEPT !.pc = "done", !.server = server, !.name = name,
                                   !.valid = FALSE, !.account = account,
                                   !.outcome =
                                     IF name = "list_sites"
                                     THEN Throws("TypeError", NoCode,
                                                 "Cannot destructure property 'account' of 'args' as it is undefined.")
                                     ELSE Throws("McpError.InvalidParams", NoCode,
                                                 "Invalid arguments")]
  /\ ret' = [kind |-> "none"]
  /\ UNCHANGED <<phase, heap, accounts, clients, authClients, pending, issued, now, ticks,
                 facade, engine>>

\* getService calls accountManager.getAuthClient (schemas.ts:184)
ToolGetAuthClient ==
  /\ tool.pc = "resolving" /\ tool.server = "multi" /\ ret.kind = "none"
  /\ GetAuthClient(tool.account)

\* the refresh the handler's getAuthClient waits for is answered
ToolRefreshOk(c, hasExpiry, emits) ==
  /\ tool.pc = "resolving" /\ ret.kind = "suspended"
  /\ RefreshOk(c, hasExpiry, emits)

ToolRefreshFail(c, e) ==
  /\ tool.pc = "resolving" /\ ret.kind = "suspended"
  /\ RefreshFail(c, e)

\* getAuthClient returned: getService returns and the handler calls the
\* service method, which sends its requests (schemas.ts:185-186)
GetServiceReturns ==
  /\ tool.pc = "resolving" /\ tool.server = "multi" /\ ret.kind = "ok"
  /\ tool' = StartCalling(tool)
  /\ UNCHANGED <<mgrVars, facade, engine>>

\* getAuthClient threw: nothing between it and the handler's outer catch
\* changes the error (schemas.ts:184, 553-560)
GetServiceThrows ==
  /\ tool.pc = "resolving" /\ tool.server = "multi" /\ ret.kind = "error"
  /\ tool' = [tool EXCEPT !.pc = "done",
                          !.outcome = Throws("Error", NoCode, ret.message)]
  /\ UNCHANGED <<mgrVars, facade, engine>>

\* the query of gsc_connections returns an error: listAccounts throws
\* (supabase-auth.ts:48-50)
ConnectionsFail(e) ==
  /\ tool.pc = "connections"
  /\ tool' = [tool EXCEPT !.pc = "done",
                          !.lookup = IF tool.stage = "resolve" THEN "failed" ELSE @,
                          !.outcome = Throws("Error", NoCode,
                                             "Failed to fetch GSC accounts: " \o e)]
  /\ UNCHANGED <<mgrVars, facade, engine>>

\* the query of gsc_connections returns conns: listAccounts queries the
\* secret of the first connection, or returns no account
\* (supabase-auth.ts:53-60, 79)
ConnectionsReturn(conns) ==
  /\ tool.pc = "connections"
  /\ tool' = IF Len(conns) = 0 THEN AfterListAccounts(tool, conns)
             ELSE [tool EXCEPT !.pc = "secret", !.conns = conns, !.i = 1]
  /\ UNCHANGED <<mgrVars, facade, engine>>

\* the query of vault.decrypted_secrets is answered, with the secret or
\* without (supabase-auth.ts:56-67): the count of gsc_properties is queried
SecretAnswered ==
  /\ tool.pc = "secret"
  /\ tool' = [tool EXCEPT !.pc = "properties"]
  /\ UNCHANGED <<mgrVars, facade, engine>>

\* the count of gsc_properties is answered (supabase-auth.ts:63-79): the
\* next connection's secret is queried, or listAccounts returns
PropertiesAnswered ==
  /\ tool.pc = "properties"
  /\ tool' = IF tool.i < Len(tool.conns)
             THEN [tool EXCEPT !.pc = "secret", !.i = @ + 1]
             ELSE AfterListAccounts(tool, tool.conns)
  /\ UNCHANGED <<mgrVars, facade, engine>>

\* the query of the site URLs of list_sites on "vdl" returns an error
\* (supabase-auth.ts:146-155)
SiteRowsFail(e) ==
  /\ tool.pc = "siteRows"
  /\ tool' = [tool EXCEPT !.pc = "done",
                          !.outcome = Throws("Error", NoCode, "Failed to fetch sites: " \o e)]
  /\ UNCHANGED <<mgrVars, facade, engine>>

\* it returns the rows: the handler responds (supabase-auth.ts:157,
\* index.ts:182-193)
SiteRowsReturn ==
  /\ tool.pc = "siteRows"
  /\ tool' = [tool EXCEPT !.pc = "done", !.outcome = Responds("absent", FALSE)]
  /\ UNCHANGED <<mgrVars, facade, engine>>

\* request k of the service call resolves; the handler returns its
\* response when every request of the call has (schemas.ts:476-493)
LegResolves(k) ==
  /\ tool.pc \in {"calling", "done"}
  /\ k \in 1..Len(tool.legs)
  /\ tool.legs[k] \in {"operation", "fallback"}
  /\ LET legs == [tool.legs EXCEPT ![k] = "resolved"]
     IN  tool' = IF tool.pc = "calling" /\ \A n \in 1..Len(legs) : legs[n] = "resolved"
                 THEN [tool EXCEPT !.pc = "done", !.legs = legs, !.reply = [kind |-> "data"],
                                   !.outcome = Responds(SuccessOf(tool.name), FALSE)]
                 ELSE [tool EXCEPT !.legs = legs]
  /\ UNCHANGED <<mgrVars, facade, engine>>

\* request k rejects with err. A wrapped method sends its fallback request
\* on a permission error of its first request (accounts.ts:291-302);
\* otherwise the service call rejects with err, and of all tools only
\* submit_url_for_indexing has a catch of its own (schemas.ts:494-509).
\* A request that is answered after the handler has thrown changes nothing
\* but what is in flight.
LegRejects(k, err) ==
  /\ tool.pc \in {"calling", "done"}
  /\ k \in 1..Len(tool.legs)
  /\ tool.legs[k] \in {"operation", "fallback"}
  /\ tool' =
       IF tool.legs[k] = "operation" /\ OpOf(tool.name) \in FallbackOps
          /\ IsPermissionError(err)
       THEN [tool EXCEPT !.legs[k] = "fallback", !.requests = @ + 1]
       ELSE IF tool.pc = "done" THEN [tool EXCEPT !.legs[k] = "threw"]
       ELSE [tool EXCEPT !.pc = "done", !.legs[k] = "threw",
                         !.reply = [kind |-> "error", code |-> err.code],
                         !.outcome = IF tool.name = "submit_url_for_indexing"
                                        /\ IndexingNotEnabled(err.code)
                                     THEN Responds("false", TRUE)
                                     ELSE Throws("ApiError", err.code, err.message)]
  /\ UNCHANGED <<mgrVars, facade, engine>>

NextTool ==
  \/ \E account \in LiveInputs : tool.pc = "idle" /\ Register(account)
  \/ \E server \in Servers, name \in ToolNames, valid \in BOOLEAN,
        account \in LiveSelectors \cup {Undefined} : ToolCall(server, name, valid, account)
  \/ ToolGetAuthClient
  \/ \E c \in 1..MaxClients, hasExpiry \in BOOLEAN, emits \in BOOLEAN :
       ToolRefreshOk(c, hasExpiry, emits)
  \/ \E c \in 1..MaxClients, e \in Causes : ToolRefreshFail(c, e)
  \/ GetServiceReturns
  \/ GetServiceThrows
  \/ \E e \in QueryErrors : ConnectionsFail(e)
  \/ \E conns \in ConnectionLists : ConnectionsReturn(conns)
  \/ SecretAnswered
  \/ PropertiesAnswered
  \/ \E e \in QueryErrors : SiteRowsFail(e)
  \/ SiteRowsReturn
  \/ \E k \in 1..2 : LegResolves(k)
  \/ \E k \in 1..2, err \in ApiErrors : LegRejects(k, err)

SpecTool == Init /\ [][NextTool]_vars

(***************************************************************************)
(* Vocabulary of the properties.                                           *)
(***************************************************************************)
\* the characters of the model's strings, in code-unit order
Ascii == " ./0123456789:@ABCDEFGHIJKLMNOPQRSTUVWXYZ_abcdefghijklmnopqrstuvwxyz"

CharCode(c) == CHOOSE i \in 1..Len(Ascii) : SubSeq(Ascii, i, i) = c

\* a < b in the lexicographic order of strings
RECURSIVE StrLess(_, _)
StrLess(a, b) ==
  IF Len(b) = 0 THEN FALSE
  ELSE IF Len(a) = 0 THEN TRUE
  ELSE IF SubSeq(a, 1, 1) = SubSeq(b, 1, 1)
       THEN StrLess(SubSeq(a, 2, Len(a)), SubSeq(b, 2, Len(b)))
       ELSE CharCode(SubSeq(a, 1, 1)) < CharCode(SubSeq(b, 1, 1))

\* the entries list() returns, as a set
Listed == {ListAccounts(accounts, heap)[i] : i \in 1..Len(ListAccounts(accounts, heap))}

\* the ids addAccount has been called with
RegisteredIds == {heap[n].id : n \in 1..Len(heap)}

\* the object most recently passed to addAccount under this id
LatestFor(id) ==
  CHOOSE n \in 1..Len(heap) :
    /\ heap[n].id = id
    /\ \A m \in 1..Len(heap) : heap[m].id = id => m <= n

\* every addAccount call so far ran to its end
AllSucceeded == \A n \in 1..Len(heap) : heap[n].email # Undefined

\* the spellings of an email a caller may use
Spellings(email) == {s \in Selectors : ToLowerCase(s) = ToLowerCase(email)}

(***************************************************************************)
(* C1 - C10.                                                               *)
(***************************************************************************)
\* C1: after any sequence of successful registrations, for every account of
\* list(), lookup by its id and lookup by its email in any letter case
\* return the same record, the one most recently registered under that id.
C1_SameRecordByEitherKey ==
  AllSucceeded =>
    \A a \in Listed :
      /\ GetAccount(accounts, a.id) = LatestFor(a.id)
      /\ \A s \in Spellings(a.email) : GetAccount(accounts, s) = LatestFor(a.id)

\* C6: whatever the order of the register calls, every id that was
\* registered is observable afterwards: lookup of the id returns the account
\* registered under it and list() contains it.
C6_NoRegistrationLost ==
  AllSucceeded =>
    \A id \in RegisteredIds :
      /\ GetAccount(accounts, id) = LatestFor(id)
      /\ \E a \in Listed : a.id = id

\* the account handed to addAccount in this step is stored under both of
\* its keys and its cache entries are gone
FullyApplied(accts, cache, hp, ref) ==
  /\ hp[ref].email # Undefined
  /\ MapHas(accts, hp[ref].id) /\ MapGet(accts, hp[ref].id) = ref
  /\ MapHas(accts, ToLowerCase(hp[ref].email))
  /\ MapGet(accts, ToLowerCase(hp[ref].email)) = ref
  /\ ~MapHas(cache, hp[ref].id)
  /\ ~MapHas(cache, ToLowerCase(hp[ref].email))

\* C7: a registration is all or nothing - after a step that calls addAccount,
\* readers see the account under both keys with its cache entries removed,
\* or (when the registration failed) the index and the cache as they were.
C7_RegistrationAtomic ==
  [][Len(heap') = Len(heap) + 1 =>
       \/ FullyApplied(accounts', authClients', heap', Len(heap'))
       \/ (accounts' = accounts /\ authClients' = authClients)]_vars

\* the distinct registered ids no other id precedes lexicographically
FirstIds == {a.id : a \in {b \in Listed : \A c \in Listed : ~StrLess(c.id, b.id)}}

\* C9 as stated: without a selector, resolution fails with "No accounts
\* configured" when there is no account and otherwise picks the account with
\* the lexicographically first id.
C9_LexicographicallyFirst ==
  AllSucceeded =>
  LET r == Resolve(accounts, heap, Undefined)
  IN  IF Listed = {}
      THEN r.account = NoAccount /\ r.message = NoAccountsMessage
      ELSE r.account # NoAccount /\ heap[r.account].id \in FirstIds

\* C9 amended: without a selector, resolution fails with "No accounts
\* configured" when the index is empty and otherwise picks the account that
\* lookup returns for the id of the record under the earliest-inserted key
\* of the index (the first entry of list()).
C9_FirstInserted ==
  LET r == Resolve(accounts, heap, Undefined)
  IN  IF Len(accounts) = 0
      THEN r.account = NoAccount /\ r.message = NoAccountsMessage
      ELSE /\ r.account = GetAccount(accounts, heap[accounts[1].val].id)
           /\ r.account # NoAccount

\* two ids are registered and the default is not the lexicographically first
C9_Witness ==
  /\ Cardinality({a.id : a \in Listed}) = 2
  /\ Resolve(accounts, heap, Undefined).account # NoAccount
  /\ heap[Resolve(accounts, heap, Undefined).account].id \notin FirstIds

\* C10: a selector resolves to the listed account whose id equals it, else
\* to the listed account whose email equals it ignoring case, else to the
\* error "Account not found: <selector>".
C10_SelectorResolution ==
  AllSucceeded => \A s \in Selectors :
    LET r == Resolve(accounts, heap, s)
    IN  IF \E a \in Listed : a.id = s
        THEN r.account # NoAccount /\ heap[r.account].id = s
        ELSE IF \E a \in Listed : ToLowerCase(a.email) = ToLowerCase(s)
        THEN /\ r.account # NoAccount
             /\ ToLowerCase(heap[r.account].email) = ToLowerCase(s)
             /\ \E a \in Listed : a.id = heap[r.account].id /\ a.email = heap[r.account].email
        ELSE r.account = NoAccount /\ r.message = "Account not found: " \o s


\* C2: after a re-registration of an id, the handle cached under that id is
\* built from the newly registered record (its refresh token), and a call
\* that returns the cached handle operates on that record.
C2_HandleFromNewCredentials ==
  /\ \A i \in 1..Len(authClients) :
       LET c == clients[authClients[i].val]
           latest == LatestFor(authClients[i].key)
       IN  c.owner = latest /\ c.credentials.refresh_token = heap[latest].refreshToken
  /\ (ret.kind = "ok" /\ MapHas(authClients, heap[ret.account].id)
        /\ MapGet(authClients, heap[ret.account].id) = ret.client)
       => ret.account = LatestFor(heap[ret.account].id)

\* C3: whenever getAuthClient returns, the returned handle carries an access
\* token, and a token the identity provider issued stays valid for at least
\* 60000 ms from now (nothing is known of a token that came with the
\* configuration).
C3_ReturnedTokenValid ==
  ret.kind = "ok" =>
    LET tok == clients[ret.client].credentials.access_token
    IN  /\ tok # Undefined
        /\ IsIssued(issued, tok) => TrueExpiry(issued, tok) >= now + RefreshMargin

\* C4: when the refresh of a suspended getAuthClient call fails, the call
\* throws "Failed to refresh token for <email>: <cause>" and returns no
\* client.
C4_RefreshFailureThrows ==
  [][(issued' = issued /\ Len(pending') < Len(pending))
       => /\ ret'.kind = "error"
          /\ \E i \in 1..Len(pending), e \in Causes :
               /\ \A j \in 1..Len(pending') : pending'[j].client # pending[i].client
               /\ ret'.message =
                    "Failed to refresh token for " \o heap[pending[i].account].email
                      \o ": " \o e]_vars

\* a refresh has just failed for a call whose token was missing or expiring
C4_Witness ==
  /\ ret.kind = "error"
  /\ Includes(ret.message, "Failed to refresh token for ")
  /\ \E c \in 1..Len(clients) :
       NeedsRefresh(clients[c].credentials, heap[clients[c].owner], now)

\* C5: at most one refresh is in flight per account id: the calls
\* suspended for an id all await the refresh request of one handle.
C5_OneRefreshInFlight ==
  \A i, j \in 1..Len(pending) :
    heap[pending[i].account].id = heap[pending[j].account].id =>
      pending[i].client = pending[j].client


\* the messages that tell of a permission problem
PermissionMessages == {"User does not have sufficient permission for site", "PERMISSION_DENIED"}

\* C8: a wrapped call sends its first request with the literal site URL; if
\* and only if that fails with an Error whose message tells of a permission
\* problem it sends one more request, with the normalized URL; the outcome
\* of the retry, or a non-permission failure of the first request, is the
\* outcome of the call, unmodified.
C8_PermissionFallback ==
  facade.op \in FallbackOps =>
    /\ Len(facade.requests) <= 2
    /\ facade.requests[1] = facade.siteUrl
    /\ Len(facade.requests) = 2 =>
         /\ facade.requests[2] = NormalizeUrl(facade.siteUrl)
         /\ facade.replies[1].kind = "thrown" /\ facade.replies[1].isError
         /\ facade.replies[1].message \in PermissionMessages
    /\ (Len(facade.replies) >= 1 /\ facade.replies[1].kind = "thrown"
          /\ facade.replies[1].isError /\ facade.replies[1].message \in PermissionMessages)
         => Len(facade.requests) = 2
    /\ facade.pc \in {"returned", "threw"} =>
         /\ Len(facade.replies) = Len(facade.requests)
         /\ facade.outcome = facade.replies[Len(facade.replies)]
         /\ (facade.pc = "threw") = (facade.outcome.kind = "thrown")

\* the retry with the normalized URL has failed and its error is thrown
C8_Witness ==
  /\ facade.op \in FallbackOps
  /\ facade.pc = "threw"
  /\ Len(facade.requests) = 2
  /\ facade.requests[2] # facade.requests[1]
  /\ facade.replies[2] # facade.replies[1]

(***************************************************************************)
(* C11 - C16: the credential store.                                        *)
(***************************************************************************)
\* C11: after any sequence of successful registrations, list() has exactly
\* one entry per registered id, each with the email most recently
\* registered for that id, and count (also as reported by register_account)
\* is the number of distinct registered ids.
C11_ListIsTheRegisteredIds ==
  AllSucceeded =>
    LET l == ListAccounts(accounts, heap)
    IN  /\ \A i, j \in 1..Len(l) : l[i].id = l[j].id => i = j
        /\ {l[i].id : i \in 1..Len(l)} = RegisteredIds
        /\ \A i \in 1..Len(l) : l[i].email = heap[LatestFor(l[i].id)].email
        /\ Count(accounts, heap) = Cardinality(RegisteredIds)
        /\ ret.kind = "registered" => ret.totalAccounts = Cardinality(RegisteredIds)

\* C12: no two distinct entries of list() have emails that are equal
\* ignoring case (and no two have the same id).
C12_EmailsUnique ==
  AllSucceeded =>
    \A a, b \in Listed :
      (a.id = b.id \/ ToLowerCase(a.email) = ToLowerCase(b.email)) => a = b

\* lookup of id returns an account of that id and list() contains the id
Visible(accts, hp, id) ==
  /\ GetAccount(accts, id) # NoAccount
  /\ hp[GetAccount(accts, id)].id = id
  /\ \E i \in 1..Len(ListAccounts(accts, hp)) : ListAccounts(accts, hp)[i].id = id

\* C13: accounts are never deleted - whatever successful registrations,
\* refreshes and failed refreshes follow, an id that lookup and list() show
\* before a step is shown by them after the step.
C13_NeverDeleted ==
  [][(\A n \in 1..Len(heap') : heap'[n].email # Undefined) =>
       \A id \in Ids \cup {"default"} :
         Visible(accounts, heap, id) => Visible(accounts', heap', id)]_vars

\* C14: one live handle per account id - after successful registrations, of
\* two handles built for the same account id the later one was built after
\* that id was registered again.
C14_OneHandlePerAccount ==
  AllSucceeded =>
    \A c1, c2 \in 1..Len(clients) :
      (c1 < c2 /\ heap[clients[c1].owner].id = heap[clients[c2].owner].id)
        => \E n \in 1..Len(heap) :
             n > clients[c1].owner /\ heap[n].id = heap[clients[c1].owner].id

\* what readers can see of the store: the keys in their order, each with
\* the fields of its record
StoreView(accts, hp) ==
  [i \in 1..Len(accts) |-> [key |-> accts[i].key, val |-> hp[accts[i].val]]]

\* C15: a register call that repeats the arguments of the register call
\* just before it leaves the records under every key, list(), count and the
\* client cache as the first call left them.
C15_RegisterIdempotent ==
  [][(/\ ret.kind = "registered" /\ ret'.kind = "registered"
      /\ Len(heap') = Len(heap) + 1
      /\ heap'[Len(heap')] = heap[Len(heap)])
       => /\ StoreView(accounts', heap') = StoreView(accounts, heap)
          /\ ListAccounts(accounts', heap') = ListAccounts(accounts, heap)
          /\ ret'.totalAccounts = ret.totalAccounts
          /\ authClients' = authClients
          /\ clients' = clients]_vars

\* the same registration was made twice in a row on a serving store
C15_Witness ==
  /\ phase = "serving" /\ ret.kind = "registered"
  /\ Len(heap) = 2 /\ heap[1] = heap[2]
  /\ Len(clients) = 0
  /\ GetAccount(accounts, heap[2].id) = 2

\* C16: during configuration load a malformed entry is skipped - it does
\* not enter the store, and the load goes on with the entries that follow
\* it in the same source.
C16_MalformedEntrySkipped ==
  [][ret'.kind = "loadFailed" =>
       /\ accounts' = accounts /\ authClients' = authClients
       /\ phase' = phase]_vars


(***************************************************************************)
(* C17 - C19: quick wins.                                                  *)
(***************************************************************************)
\* thresholds t2 ask for at least the impressions of t1 and for a position
\* range inside that of t1, and are the same otherwise
Tighter(t2, t1) ==
  /\ t2.minImpressions >= t1.minImpressions
  /\ t2.positionRangeMin >= t1.positionRangeMin
  /\ t2.positionRangeMax <= t1.positionRangeMax
  /\ t2.maxCtr = t1.maxCtr /\ t2.limit = t1.limit

\* C17: for the same rows and limit, a call with a higher minImpressions or
\* a narrower position range returns no more rows than a call with the
\* lower minImpressions or the wider range: what the call has returned is
\* no longer than the result of detectQuickWins for the same rows under
\* any thresholds that its own tighten.
C17_FilterMonotonic ==
  engine.pc = "returned" =>
    \A loose \in Thresholds :
      Tighter(engine.thresholds, loose) =>
        Len(engine.out) <= Len(DetectQuickWins(engine.rows, loose).out)

\* the tightest thresholds have returned some rows, fewer than the loosest
\* thresholds return for the same rows
C17_Witness ==
  /\ engine.pc = "returned"
  /\ engine.thresholds.minImpressions = 1000
  /\ engine.thresholds.positionRangeMin = 700
  /\ engine.thresholds.positionRangeMax = 1000
  /\ Len(engine.out) >= 1
  /\ Len(engine.out) <
       Len(DetectQuickWins(engine.rows,
             [engine.thresholds EXCEPT !.minImpressions = 100, !.positionRangeMin = 400,
                                       !.positionRangeMax = 2000]).out)

\* C18: every returned row has targetCtr 8 up to position 5, 5 up to
\* position 10 and 3 beyond; potentialClicks = round(impressions *
\* targetCtr / 100); additionalClicks = max(0, potentialClicks -
\* currentClicks), never negative; opportunity High from 100 additional
\* clicks, Medium from 30, Low below.
C18_QuickWinArithmetic ==
  engine.pc = "returned" =>
    \A i \in 1..Len(engine.out) :
      LET row == engine.rows[engine.order[i]]
          w == engine.out[i]
          position == IF row.position = Missing THEN 0 ELSE row.position
          impressions == IF row.impressions = Missing THEN 0 ELSE row.impressions
          clicks == IF row.clicks = Missing THEN 0 ELSE row.clicks
      IN  /\ w.targetCtr = (IF position <= 500 THEN 8 ELSE IF position <= 1000 THEN 5 ELSE 3)
          /\ 200 * w.potentialClicks <= 2 * impressions * w.targetCtr + 100
          /\ 2 * impressions * w.targetCtr + 100 < 200 * w.potentialClicks + 200
          /\ w.additionalClicks >= 0
          /\ w.additionalClicks =
               (IF w.potentialClicks > clicks THEN w.potentialClicks - clicks ELSE 0)
          /\ w.currentClicks = clicks /\ w.impressions = impressions
          /\ (w.opportunity = "High") = (w.additionalClicks >= 100)
          /\ (w.opportunity = "Medium") = (w.additionalClicks >= 30 /\ w.additionalClicks < 100)
          /\ w.opportunity \in {"High", "Medium", "Low"}

\* the row of the example (impressions 1000, clicks 20, position 6) is
\* returned as 5, 50, 30, Medium, next to a High row at position 5 and a Low
\* row whose clicks exceed its potential
C18_Witness ==
  /\ engine.pc = "returned"
  /\ \E i \in 1..Len(engine.out) :
       /\ engine.rows[engine.order[i]].position = 600
       /\ engine.out[i].targetCtr = 5 /\ engine.out[i].potentialClicks = 50
       /\ engine.out[i].additionalClicks = 30 /\ engine.out[i].opportunity = "Medium"
  /\ \E i \in 1..Len(engine.out) :
       /\ engine.rows[engine.order[i]].position = 500
       /\ engine.out[i].opportunity = "High"
  /\ \E i \in 1..Len(engine.out) :
       /\ engine.out[i].currentClicks > engine.out[i].potentialClicks
       /\ engine.out[i].additionalClicks = 0 /\ engine.out[i].opportunity = "Low"

\* the additionalClicks of input row i
AdditionalOf(i) == QuickWinOf(engine.rows[i]).additionalClicks

\* input row i sorts before input row j: more additional clicks, or as many
\* and earlier in the input
Before(i, j) ==
  AdditionalOf(i) > AdditionalOf(j) \/ (AdditionalOf(i) = AdditionalOf(j) /\ i < j)

\* the input rows the filter keeps
Kept == {i \in 1..Len(engine.rows) : QuickWinFilter(engine.rows[i], engine.thresholds)}

\* C19: the result is the first `limit` rows of the stable descending sort
\* by additionalClicks of the filtered rows: it has limit rows (all of them
\* when there are fewer), each sorts before the rows after it and before
\* every filtered row left out, rows of equal additionalClicks in input
\* order.
C19_StableSortThenLimit ==
  engine.pc = "returned" =>
    LET order == engine.order
        wanted == IF engine.thresholds.limit < 0 THEN 0 ELSE engine.thresholds.limit
    IN  /\ Len(order) = (IF wanted < Cardinality(Kept) THEN wanted ELSE Cardinality(Kept))
        /\ \A i \in 1..Len(order) : order[i] \in Kept
        /\ \A i, j \in 1..Len(order) : i < j => Before(order[i], order[j])
        /\ \A i \in 1..Len(order) :
             \A k \in Kept \ {order[j] : j \in 1..Len(order)} : Before(order[i], k)
        /\ \A i \in 1..Len(order) : engine.out[i] = QuickWinOf(engine.rows[order[i]])

(***************************************************************************)
(* C20: period comparison.                                                 *)
(***************************************************************************)
\* the previous-period rows with the dimension values of a current row
CounterpartsOf(currentRow) ==
  {p \in 1..Len(engine.previousRows) :
     /\ engine.previousRows[p].hasKeys = currentRow.hasKeys
     /\ engine.previousRows[p].keys = currentRow.keys}

\* C20: every current-period row appears exactly once in the comparison and
\* nothing else does; a row whose dimension values have no counterpart in
\* the previous period has previous clicks, impressions, position and CTR
\* zero and a null clicks percentage, and a row with a counterpart has the
\* counterpart's clicks, impressions, position and CTR.
C20_JoinTotalOnCurrent ==
  engine.pc = "returned" =>
    /\ Len(engine.comparison) = Len(engine.currentRows)
    /\ \A c \in 1..Len(engine.currentRows) :
         Cardinality({i \in 1..Len(engine.order) : engine.order[i] = c}) = 1
    /\ \A i \in 1..Len(engine.comparison) :
         LET row == engine.currentRows[engine.order[i]]
             cmp == engine.comparison[i]
         IN  /\ cmp.keys = row.keys
             /\ cmp.current.clicks = (IF row.clicks = Missing THEN 0 ELSE row.clicks)
             /\ IF CounterpartsOf(row) = {}
                THEN /\ cmp.previous = [clicks |-> 0, impressions |-> 0, position |-> 0,
                                        ctr |-> 0]
                     /\ cmp.change.clicksPercent.isNull
                ELSE \E p \in CounterpartsOf(row) :
                       /\ cmp.previous.clicks = engine.previousRows[p].clicks
                       /\ cmp.previous.impressions = engine.previousRows[p].impressions
                       /\ cmp.previous.ctr = engine.previousRows[p].ctr
                       /\ cmp.previous.position = (engine.previousRows[p].position + 5) \div 10

(***************************************************************************)
(* C21 - C22: deltas of the period comparison.                             *)
(***************************************************************************)
\* num / den (den > 0) rounded to the nearest integer, a half away from zero
Rounded(num, den) ==
  IF num >= 0 THEN (2 * num + den) \div (2 * den)
  ELSE 0 - ((2 * (0 - num) + den) \div (2 * den))

\* C21: in every comparison row the clicks delta is current - previous
\* clicks, and the clicks percentage is null exactly when the previous
\* clicks are 0 and otherwise delta / previous * 100 rounded to one decimal.
C21_ClicksDeltaPercent ==
  engine.pc = "returned" =>
    \A i \in 1..Len(engine.comparison) :
      LET cmp == engine.comparison[i]
          delta == cmp.current.clicks - cmp.previous.clicks
      IN  /\ cmp.change.clicks = delta
          /\ cmp.change.clicksPercent.isNull = (cmp.previous.clicks = 0)
          /\ ~cmp.change.clicksPercent.isNull =>
               cmp.change.clicksPercent.tenths = Rounded(1000 * delta, cmp.previous.clicks)

\* the sum of f over the set S of its arguments
RECURSIVE SumOver(_, _)
SumOver(f, S) ==
  IF S = {} THEN 0
  ELSE LET x == CHOOSE y \in S : TRUE IN f[x] + SumOver(f, S \ {x})

\* the sum of the clicks, and of the impressions, of all rows of a response
ClicksOf(rows) == SumOver([i \in 1..Len(rows) |-> rows[i].clicks], 1..Len(rows))
ImpressionsOf(rows) == SumOver([i \in 1..Len(rows) |-> rows[i].impressions], 1..Len(rows))

\* the sum of the per-row clicks deltas of the returned comparison
RowDeltas ==
  SumOver([i \in 1..Len(engine.comparison) |-> engine.comparison[i].change.clicks],
          1..Len(engine.comparison))

\* C22: the summary's clicks and impressions of each period are the sums
\* over all rows fetched for that period, previous rows without a current
\* counterpart included; the summary's clicks delta is the current total
\* minus the previous total, and its percentage is null exactly when the
\* previous total is 0 and otherwise a tenth nearest to delta / previous
\* total * 100.
C22_SummaryOverAllRows ==
  engine.pc = "returned" =>
    LET s == engine.summary
        delta == ClicksOf(engine.currentRows) - ClicksOf(engine.previousRows)
    IN  /\ s.currentPeriod.clicks = ClicksOf(engine.currentRows)
        /\ s.currentPeriod.impressions = ImpressionsOf(engine.currentRows)
        /\ s.previousPeriod.clicks = ClicksOf(engine.previousRows)
        /\ s.previousPeriod.impressions = ImpressionsOf(engine.previousRows)
        /\ s.change.clicks = delta
        /\ s.change.impressions
             = ImpressionsOf(engine.currentRows) - ImpressionsOf(engine.previousRows)
        /\ s.change.clicksPercent.isNull = (ClicksOf(engine.previousRows) = 0)
        /\ ~s.change.clicksPercent.isNull =>
             LET off == s.change.clicksPercent.tenths * ClicksOf(engine.previousRows)
                          - 1000 * delta
             IN  2 * off <= ClicksOf(engine.previousRows)
                   /\ 2 * (0 - off) <= ClicksOf(engine.previousRows)

\* a comparison of two rows each with a previous row that no current row
\* matches and that has clicks: the summary's delta is not the sum of the
\* per-row deltas
C22_Witness ==
  /\ engine.pc = "returned"
  /\ Len(engine.currentRows) = 2
  /\ \E j \in 1..Len(engine.previousRows) :
       /\ engine.previousRows[j].clicks > 0
       /\ \A i \in 1..Len(engine.currentRows) :
            PreviousRowOf(engine.currentRows[i], engine.previousRows) # j
  /\ engine.summary.change.clicks # RowDeltas
  /\ ~engine.summary.change.clicksPercent.isNull

(***************************************************************************)
(* C23 - C24: errors of a tool call.                                       *)
(***************************************************************************)
\* the handler's account resolution (token refresh included) has failed
ResolutionFailed ==
  \/ tool.server = "multi" /\ ret.kind = "error"
  \/ tool.server = "vdl" /\ tool.lookup \in {"none", "failed", "gone"}

\* the API call of the handler was rejected with the given code
RejectedWith(code) == tool.reply.kind = "error" /\ tool.reply.code = code

\* C23: in submit_url_for_indexing a rejection of the submission with code
\* 403 becomes a returned response with success false and a suggestion;
\* a rejection with any other error is thrown on unchanged, an error of
\* account resolution or token refresh is thrown without any submission,
\* and the submission is sent at most once.
C23_IndexingDeniedIsAResponse ==
  (tool.name = "submit_url_for_indexing" /\ tool.valid) =>
    /\ tool.requests <= 1
    /\ tool.pc = "done" =>
         /\ RejectedWith(403) =>
              /\ tool.outcome.kind = "response"
              /\ tool.outcome.success = "false"
              /\ tool.outcome.suggestion
         /\ \A err \in ApiErrors :
              (err.code # 403 /\ RejectedWith(err.code)) =>
                /\ tool.outcome.kind = "throws"
                /\ tool.outcome.class = "ApiError"
                /\ tool.outcome.code = err.code
         /\ ResolutionFailed => tool.outcome.kind = "throws" /\ tool.requests = 0

\* submit_url_for_indexing on the multi-account server has waited for a
\* token refresh, sent the submission once and had it rejected with 403
C23_Witness ==
  /\ tool.pc = "done"
  /\ tool.name = "submit_url_for_indexing"
  /\ tool.server = "multi"
  /\ Len(issued) = 1
  /\ tool.requests = 1
  /\ RejectedWith(403)
  /\ tool.outcome = Responds("false", TRUE)

\* C24: a tool call with well-formed arguments whose account selector
\* matches no registered account ends with the error class of a schema
\* validation failure, McpError(InvalidParams), whatever the tool, and
\* without any API call.
C24_UnknownAccountIsInvalidParams ==
  (/\ tool.pc = "done"
   /\ tool.valid
   /\ tool.account # Undefined
   /\ \/ tool.server = "multi" /\ GetAccount(accounts, tool.account) = NoAccount
      \/ tool.server = "vdl" /\ tool.lookup = "none") =>
    /\ tool.outcome.kind = "throws"
    /\ tool.outcome.class = "McpError.InvalidParams"
    /\ tool.requests = 0

(***************************************************************************)
(* C25 - C30: the client handle and the record it was made for.            *)
(***************************************************************************)
\* the handle's access token and expiry are the record's accessToken and
\* expiresAt (an absent value on one side is absent on the other)
Agree(credentials, account) ==
  /\ (IF credentials.access_token = "" THEN Undefined ELSE credentials.access_token)
       = account.accessToken
  /\ credentials.expiry_date = account.expiresAt

\* C25: whenever getAuthClient returns, the handle it returns and the
\* record it returns hold the same access token and the same expiry, and
\* when the call has refreshed, these are the values just issued.
C25_WriteThroughOnRefresh ==
  [][ret'.kind = "ok" =>
       /\ Agree(clients'[ret'.client].credentials, heap'[ret'.account])
       /\ Len(issued') > Len(issued) =>
            /\ heap'[ret'.account].accessToken = TokenNames[Len(issued')]
            /\ heap'[ret'.account].expiresAt \in {NoExpiry, issued'[Len(issued')]}]_vars

\* client c is a value of the client cache
Cached(cache, c) == \E i \in 1..Len(cache) : cache[i].val = c

\* this step is an out-of-band token update of client c: the provider
\* issues a token that no suspended getAuthClient has asked for
OutOfBandUpdate(c) ==
  /\ Len(issued') > Len(issued)
  /\ pending' = pending
  /\ clients'[c] # clients[c]

\* C26: after an out-of-band token update on a cached handle, the record
\* the handle was made for has the handle's access token and the handle's
\* expiry, also when the update carries no expiry.
C26_EventWriteThrough ==
  [][\A c \in 1..Len(clients) :
       (OutOfBandUpdate(c) /\ Cached(authClients, c)) =>
         Agree(clients'[c].credentials, heap'[clients[c].owner])]_vars

\* the record that getAuthClient(idOrEmail) resolves has, under its id, a
\* cached handle whose access token expires at or after now + 60000
HasValidHandle(idOrEmail) ==
  LET r == Resolve(accounts, heap, idOrEmail)
  IN  /\ r.account # NoAccount
      /\ MapHas(authClients, heap[r.account].id)
      /\ LET tokens == clients[MapGet(authClients, heap[r.account].id)].credentials
         IN  /\ tokens.access_token \notin {Undefined, ""}
             /\ tokens.expiry_date >= now + RefreshMargin

\* C27: a getAuthClient call for an account whose cached handle holds an
\* access token expiring at or after now + 60000 returns that handle at
\* once: no client is created, the cache is unchanged and no refresh is
\* awaited.
C27_HandleReused ==
  [][\A idOrEmail \in LiveSelectors \cup {Undefined} :
       (HasValidHandle(idOrEmail) /\ GetAuthClient(idOrEmail)) =>
         /\ ret'.kind = "ok"
         /\ ret'.client = MapGet(authClients, heap[Resolve(accounts, heap, idOrEmail).account].id)
         /\ clients' = clients
         /\ authClients' = authClients
         /\ pending' = pending]_vars

\* getAuthClient has returned at once a handle whose token was issued
\* before the clock last advanced and expires exactly at now + 60000
C27_Witness ==
  /\ ret.kind = "ok"
  /\ Len(issued) >= 1
  /\ issued[Len(issued)] < now + TokenLifetime
  /\ clients[ret.client].credentials.expiry_date = now + RefreshMargin
  /\ Cached(authClients, ret.client)

\* C28: a registration of id X leaves no handle cached under X, and a
\* handle enters the cache only in the step that constructs it; so after
\* a registration of X the cache never holds under X a handle created
\* before it, whatever a call suspended across the registration does when
\* it resumes.
C28_NoOldHandleCached ==
  [][/\ Len(heap') > Len(heap) => ~MapHas(authClients', heap'[Len(heap')].id)
     /\ \A i \in 1..Len(authClients') :
          LET k == authClients'[i].key
          IN  (~MapHas(authClients, k) \/ MapGet(authClients, k) # authClients'[i].val) =>
                /\ Len(clients') = Len(clients) + 1
                /\ authClients'[i].val = Len(clients')]_vars

\* a getAuthClient call has returned a handle made for a record that was
\* replaced while the call was suspended: the handle is not in the cache,
\* and a handle made after the registration is cached under the id
C28_Witness ==
  /\ ret.kind = "ok"
  /\ ret.account < LatestFor(heap[ret.account].id)
  /\ ~Cached(authClients, ret.client)
  /\ MapHas(authClients, heap[ret.account].id)
  /\ clients[MapGet(authClients, heap[ret.account].id)].owner
       = LatestFor(heap[ret.account].id)

\* handle c was constructed before the latest registration of its
\* account's id: it was made for a record that has been replaced, and the
\* registration has removed it from the cache
MadeBeforeReRegistration(c) ==
  /\ clients[c].owner < LatestFor(heap[clients[c].owner].id)
  /\ ~Cached(authClients, c)

\* C29: a token update (the result of a refresh, or a 'tokens' event) of a
\* handle constructed before a re-registration of its account's id changes
\* no record that is currently registered: every record it changes has
\* been replaced by a later registration of the same id.
C29_OldHandleWritesOldRecord ==
  [][\A c \in 1..Len(clients) :
       (MadeBeforeReRegistration(c) /\ clients'[c].credentials # clients[c].credentials) =>
         \A n \in 1..Len(heap) :
           heap'[n] # heap[n] => n < LatestFor(heap[n].id)]_vars

\* the refresh of a call suspended across a re-registration has been
\* written to the replaced record, and the registered record has not
\* received the token
C29_Witness ==
  /\ ret.kind = "ok"
  /\ ret.account < LatestFor(heap[ret.account].id)
  /\ ~Cached(authClients, ret.client)
  /\ IsIssued(issued, heap[ret.account].accessToken)
  /\ heap[ret.account].accessToken = clients[ret.client].credentials.access_token
  /\ heap[LatestFor(heap[ret.account].id)].accessToken # heap[ret.account].accessToken

\* this step ends suspended getAuthClient calls with an error
RefreshFails ==
  /\ Len(pending') < Len(pending)
  /\ ret'.kind = "error"

\* C30: the step in which a refresh fails changes no record, no key of the
\* account index, no handle and no entry of the cache (the handle stays
\* cached), issues no token, and ends exactly the calls that awaited that
\* one refresh request: no second attempt is started.
C30_FailedRefreshChangesNothing ==
  [][RefreshFails =>
       /\ heap' = heap
       /\ accounts' = accounts
       /\ clients' = clients
       /\ authClients' = authClients
       /\ issued' = issued
       /\ \E c \in 1..Len(clients) :
            /\ \E i \in 1..Len(pending) : pending[i].client = c
            /\ pending' = SelectSeq(pending, LAMBDA call : call.client # c)]_vars

\* a refresh has failed for an account whose cached handle and record
\* hold a token issued by an earlier refresh
C30_Witness ==
  /\ ret.kind = "error"
  /\ Len(ret.message) > 24
  /\ SubSeq(ret.message, 1, 24) = "Failed to refresh token "
  /\ \E i \in 1..Len(authClients) :
       LET c == authClients[i].val
       IN  /\ IsIssued(issued, clients[c].credentials.access_token)
           /\ heap[clients[c].owner].accessToken = clients[c].credentials.access_token
           /\ clients[c].credentials.expiry_date < now + RefreshMargin

====
